---- MODULE Spec2Model ----
(***************************************************************************)
(* Model of the primitive extraction pass of ComCAD                        *)
(* (src/CORE/cat_loader.py: extraer_primitivas_basicas, the attribute      *)
(* resolvers it calls and calcular_extents_primitivas) and of the painting *)
(* of the layer items built from its result (src/ui/main.py:               *)
(* LayerItem.paint).                                                       *)
(*                                                                         *)
(* The recursion of entity_to_prims is modelled with an explicit stack of  *)
(* frames, one frame per running "for be in blk" loop.  One step of the    *)
(* model is one call of entity_to_prims up to its return or up to the      *)
(* point where it starts iterating a block.  An exception that leaves a    *)
(* call is in flight for one step (pc = "unwinding") before it is caught   *)
(* or leaves the pass (pc = "raised").                                     *)
(*                                                                         *)
(* Conventions: an optional Python value (None or a value) is a sequence   *)
(* of length 0 or 1; coordinates are integers and 2D (the extractor keeps  *)
(* only x and y of every transformed point), counted in millionths of a    *)
(* drawing unit; a Matrix44 restricted to the plane is a 3x3 tuple of      *)
(* rows; view scales are counted in thousandths and pen widths in          *)
(* 1/100000 pixel.                                                         *)
(*                                                                         *)
(* cap_skips is history: the number of calls a cap refused plus the        *)
(* model-space entities a break left unvisited.  drawn is the output of    *)
(* the last paint of a layer item, None once it is invalidated.            *)
(*                                                                         *)
(* arc_call is one call of discretizar_arco: its arguments and, once it    *)
(* has returned, its result.  win is the document state of the main        *)
(* window (src/ui/main.py: VentanaPrincipal) and load is what the last     *)
(* handler of the window got from the file dialog and from                 *)
(* cargar_archivo, None when that handler opened nothing.  The three have  *)
(* specifications of their own (SpecArc, SpecWindow) and are None while a  *)
(* drawing is traversed and painted.                                       *)
(***************************************************************************)
EXTENDS Integers, Sequences, FiniteSets, TLC

VARIABLES doc, opts, prims, hist, cuenta, block_repeats, expanded, stack, mspIdx, pc,
          cap_skips, simplify_render, drawn, arc_call, win, load

vars == <<doc, opts, prims, hist, cuenta, block_repeats, expanded, stack, mspIdx, pc,
          cap_skips, simplify_render, drawn, arc_call, win, load>>

(***************************************************************************)
(* Program constants                                                       *)
(***************************************************************************)
\* ezdxf.const.BYBLOCK / BYLAYER, also written literally in _effective_color
BYBLOCK == 0
BYLAYER == 256
\* depth > 8 in the INSERT branch
DepthCap == 8
\* defaults of the keyword arguments
DefaultMaxBlockRepeats == 8000
DefaultMaxTotal == 250000

\* src/ui/main.py: the view scale is counted in thousandths, so that 0.03,
\* 0.12 and 0.35 are 30, 120 and 350
LOD_BOX_THRESHOLD == 30
LOD_SIMPLE_THRESHOLD == 120
LOD_TEXT_THRESHOLD == 350
\* "if view_scale > 0.6"
LOD_AMPLIFY_SCALE == 600
\* "len(pts) > 400 and view_scale < 0.5"
SIMPLIFY_MIN_VERTICES == 400
SIMPLIFY_MAX_SCALE == 500
\* pen widths are counted in 1/100000 pixel: (lw100 / 100.0) * 2.2 is
\* lw100 * 2200, and the floor 0.4 is 40000
LINEWEIGHT_SCALE_BASE == 2200
MIN_PEN_WIDTH == 40000
\* _compute_bbox, in millionths of a drawing unit: "pad = 1.5", and the
\* default text height 2.5 of 'd.get("h", 2.5)' and of the extractor
BBOX_PAD == 1500000
TEXT_HEIGHT == 2500000

(***************************************************************************)
(* Bounds of the model                                                     *)
(***************************************************************************)
\* the small values tried for max_block_repeats, max_total_after_blocks, limitar
SmallRepeatCap == 2
SmallTotalCap == 3
SmallLimit == 2
\* the longest primitive list whose extents are computed
MaxExtentsPrims == 6

None == <<>>
Some(v) == <<v>>

\* neutral grey returned when the palette lookup raises
Grey == <<200, 200, 210>>

(***************************************************************************)
(* Colour                                                                  *)
(***************************************************************************)
\* ezdxf.colors.aci2rgb: raises IndexError outside 1..255, else the table
\* entry.  Only the entries the model's documents use are spelled out.
AciInRange(c) == c >= 1 /\ c <= 255

PaletteEntry(c) ==
  CASE c = 1 -> <<255, 0, 0>>
    [] c = 2 -> <<255, 255, 0>>
    [] c = 3 -> <<0, 255, 0>>
    [] c = 4 -> <<0, 255, 255>>
    [] c = 5 -> <<0, 0, 255>>
    [] c = 6 -> <<255, 0, 255>>
    [] c = 7 -> <<255, 255, 255>>
    [] c = 255 -> <<255, 255, 255>>
    [] OTHER -> <<c, c, c>>

\* _aci_to_rgb: None stands for the raised IndexError
AciToRgbMutRange(c) == IF c >= 1 /\ c <= 256 THEN Some(PaletteEntry(c)) ELSE None

AciToRgb(c) == IF AciInRange(c) THEN Some(PaletteEntry(c)) ELSE None

\* doc.layers.get(name): raises when the table has no such layer
HasLayer(layers, name) == name \in DOMAIN layers

\* lines 403-408: colour code of the entity's layer, 7 on any failure
LayerAci(layers, e) ==
  IF HasLayer(layers, e.layer)
  THEN (IF layers[e.layer].color = None THEN 7 ELSE layers[e.layer].color[1])
  ELSE 7

EffectiveColorMutNoFallback(layers, e, byblock_color) ==
  LET aci0 == e.color
  IN IF aci0 = Some(BYBLOCK) /\ byblock_color # None
     THEN byblock_color[1]
     ELSE LET aci2 == IF aci0 = None \/ aci0 = Some(BYLAYER)
                      THEN LayerAci(layers, e)
                      ELSE aci0[1]
              rgb  == AciToRgb(aci2)
          IN IF rgb = None THEN Grey ELSE rgb[1]

\* _effective_color(doc, entity, byblock_color)
EffectiveColor(layers, e, byblock_color) ==
  LET aci0 == e.color
  IN IF aci0 = Some(BYBLOCK) /\ byblock_color # None
     THEN byblock_color[1]
     ELSE LET aci1 == IF aci0 = Some(BYBLOCK) THEN Some(BYLAYER) ELSE aci0
              aci2 == IF aci1 = None \/ aci1 = Some(BYLAYER)
                      THEN LayerAci(layers, e)
                      ELSE aci1[1]
              rgb  == AciToRgb(aci2)
          IN IF rgb = None THEN Grey ELSE rgb[1]

(***************************************************************************)
(* Lineweight and linetype                                                 *)
(***************************************************************************)
\* specials = {-1, -2, -3, None}
IsSpecialLw(lw) == lw = None \/ lw \in {Some(-1), Some(-2), Some(-3)}

\* _effective_lineweight(doc, entity): <<value, source>>
EffectiveLineweight(layers, e) ==
  IF IsSpecialLw(e.lineweight)
  THEN IF HasLayer(layers, e.layer)
       THEN LET lwl == layers[e.layer].lineweight
            IN IF IsSpecialLw(lwl) THEN <<0, "LAYER">> ELSE <<lwl[1], "LAYER">>
       ELSE <<0, "DEFAULT">>
  ELSE <<e.lineweight[1], "ENTITY">>

\* str.upper() on the linetype names the model's documents use
Upper(s) ==
  CASE s = "bylayer" -> "BYLAYER"
    [] s = "ByBlock" -> "BYBLOCK"
    [] s = "dashed"  -> "DASHED"
    [] OTHER -> s

\* "not lt or lt.upper() in (BYLAYER, BYBLOCK)"
IsSymbolicLt(lt) ==
  IF lt = None \/ lt = Some("") THEN TRUE ELSE Upper(lt[1]) \in {"BYLAYER", "BYBLOCK"}

\* _effective_linetype(doc, entity): <<name, source>>
EffectiveLinetype(layers, e) ==
  IF IsSymbolicLt(e.linetype)
  THEN IF HasLayer(layers, e.layer)
       THEN LET ltl == layers[e.layer].linetype
            IN IF ltl = None \/ ltl = Some("") THEN <<"CONTINUOUS", "LAYER">>
               ELSE <<ltl[1], "LAYER">>
       ELSE <<"CONTINUOUS", "DEFAULT">>
  ELSE <<e.linetype[1], "ENTITY">>

(***************************************************************************)
(* Transforms (ezdxf.math.Matrix44 restricted to the plane)                *)
(*                                                                         *)
(* The library uses row vectors: transform(v) is v * M, the translation is *)
(* the last row, and A @ B is the ordinary product A * B, so that          *)
(* (A @ B).transform(v) = B.transform(A.transform(v)).                     *)
(***************************************************************************)
Identity == << <<1, 0, 0>>, <<0, 1, 0>>, <<0, 0, 1>> >>

\* Matrix44.transform(vector)
Transform(m, p) ==
  << p[1] * m[1][1] + p[2] * m[2][1] + m[3][1],
     p[1] * m[1][2] + p[2] * m[2][2] + m[3][2] >>

\* Matrix44.__matmul__
MatMul(a, b) ==
  [i \in 1..3 |-> [j \in 1..3 |->
      a[i][1] * b[1][j] + a[i][2] * b[2][j] + a[i][3] * b[3][j]]]

ScaleM(sx, sy) == << <<sx, 0, 0>>, <<0, sy, 0>>, <<0, 0, 1>> >>

\* rotation about z by q quarter turns, counter-clockwise
RotM(q) ==
  CASE q = 0 -> Identity
    [] q = 1 -> << <<0, 1, 0>>, <<-1, 0, 0>>, <<0, 0, 1>> >>
    [] q = 2 -> << <<-1, 0, 0>>, <<0, -1, 0>>, <<0, 0, 1>> >>
    [] q = 3 -> << <<0, -1, 0>>, <<1, 0, 0>>, <<0, 0, 1>> >>

TranslateM(tx, ty) == << <<1, 0, 0>>, <<0, 1, 0>>, <<tx, ty, 1>> >>

\* e.matrix44() of an INSERT: scale, then rotation, then translation to the
\* insertion point
InsertMatrix(e) ==
  MatMul(MatMul(ScaleM(e.xscale, e.yscale), RotM(e.rotation)),
         TranslateM(e.insert[1], e.insert[2]))

\* apply_point(pt, m)
ApplyPoint(pt, m) == IF m = None THEN pt ELSE Transform(m[1], pt)

\* "next_transform = m if transform is None else transform @ m"
NextTransform(transform, m) ==
  IF transform = None THEN Some(m) ELSE Some(MatMul(transform[1], m))

ApplyAll(pts, m) == [i \in 1..Len(pts) |-> ApplyPoint(pts[i], m)]

(***************************************************************************)
(* Arc discretization and hatch loops                                      *)
(*                                                                         *)
(* Angles are exact: a sample angle of a discretization into "steps"       *)
(* segments is a whole number of 1/steps degree.  Sines are taken with     *)
(* Bhaskara's rational approximation, which is exact at every multiple of  *)
(* 90 degrees and periodic, and rounded to the coordinate unit.            *)
(***************************************************************************)
\* math.sin(math.radians(n / s)) * r for 0 <= n / s <= 180
HalfSine(n, s, r) ==
  (4 * n * (180 * s - n) * r) \div (40500 * s * s - n * (180 * s - n))

\* math.sin(ang) * r and math.cos(ang) * r, ang being n / s degrees
SinTimes(n, s, r) ==
  LET m == n % (360 * s)
  IN IF m <= 180 * s THEN HalfSine(m, s, r) ELSE 0 - HalfSine(m - 180 * s, s, r)

CosTimes(n, s, r) == SinTimes(n + 90 * s, s, r)

\* "while a <= floor: a += 2 * math.pi", in degrees
RaiseAbove(a, floor) ==
  IF a > floor THEN a ELSE a + 360 * (((floor - a) \div 360) + 1)

StepsOfMutExact(seg) == seg

\* "steps = max(4, seg)"
StepsOf(seg) == IF seg >= 4 THEN seg ELSE 4

\* the values of "ang" in the loop of discretizar_arco, each as a number of
\* 1/steps degree: a0 + (a1 - a0) * i / steps for i = 0 .. steps
ArcAngles(start_deg, end_deg, ccw, seg) ==
  LET steps == StepsOf(seg)
      a0 == IF ccw THEN start_deg ELSE RaiseAbove(start_deg, end_deg)
      a1 == IF ccw THEN RaiseAbove(end_deg, start_deg) ELSE end_deg
  IN [k \in 1..(steps + 1) |-> a0 * steps + (a1 - a0) * (k - 1)]

\* discretizar_arco(cx, cy, r, start_deg, end_deg, ccw, seg)
DiscretizarArco(cx, cy, r, start_deg, end_deg, ccw, seg) ==
  LET steps == StepsOf(seg)
      angles == ArcAngles(start_deg, end_deg, ccw, seg)
  IN [k \in 1..Len(angles) |->
        <<cx + CosTimes(angles[k], steps, r), cy + SinTimes(angles[k], steps, r)>>]

\* "seg=28" in hatch_loops
HATCH_ARC_SEGMENTS == 28

\* math.degrees(a) = a * 180 / pi, rounded down to a whole degree.  ezdxf
\* keeps ArcEdge.start_angle and ArcEdge.end_angle in degrees (a full
\* circle is 0 to 360); hatch_loops passes them through math.degrees before
\* it calls discretizar_arco.
Degrees(a) == (a * 57296) \div 1000

\* the points of one edge, before the test on first_set: both ends of a
\* line edge, the discretization of an arc edge, nothing for an edge of
\* another type
EdgePoints(edge) ==
  CASE edge.kind = "LineEdge" -> <<edge.start, edge.end>>
    [] edge.kind = "ArcEdge" ->
         DiscretizarArco(edge.center[1], edge.center[2], edge.radius,
                         Degrees(edge.start_angle), Degrees(edge.end_angle),
                         ~edge.ccw, HATCH_ARC_SEGMENTS)
    [] OTHER -> <<>>

\* what one edge appends to "current": all its points while first_set is
\* false (current is still empty), and all but the first afterwards
AppendEdgeMutAll(current, edge) == current \o EdgePoints(edge)

AppendEdge(current, edge) ==
  IF EdgePoints(edge) = <<>> THEN current
  ELSE IF current = <<>> THEN EdgePoints(edge)
  ELSE current \o Tail(EdgePoints(edge))

\* "for edge in bpath"
RECURSIVE PathPoints(_)
PathPoints(edges) ==
  IF edges = <<>> THEN <<>>
  ELSE AppendEdge(PathPoints(SubSeq(edges, 1, Len(edges) - 1)), edges[Len(edges)])

\* the tolerance 1e-6 of the closing test, in millionths of a drawing unit
CLOSE_TOLERANCE == 1

Abs(x) == IF x >= 0 THEN x ELSE 0 - x

CloseLoopMutExact(current) ==
  IF current[Len(current)] # current[1] THEN Append(current, current[1]) ELSE current

\* lines 587-591: close the loop when its last point is away from its first
CloseLoop(current) ==
  LET first == current[1]
      last == current[Len(current)]
  IN IF Abs(last[1] - first[1]) > CLOSE_TOLERANCE \/ Abs(last[2] - first[2]) > CLOSE_TOLERANCE
     THEN Append(current, first)
     ELSE current

RECURSIVE HatchLoops(_)
\* hatch_loops(e): the transform is not a parameter of the function
HatchLoops(paths) ==
  IF paths = <<>> THEN <<>>
  ELSE LET current == PathPoints(paths[1])
           rest == HatchLoops(Tail(paths))
       IN IF current = <<>> THEN rest ELSE <<CloseLoop(current)>> \o rest

\* txt.strip() is empty
IsBlank(s) == s \in {"", " ", "  "}

(***************************************************************************)
(* Extents                                                                 *)
(***************************************************************************)
RECURSIVE Flatten(_)
\* "for loop in d.get("loops", []): for x, y in loop"
Flatten(loops) == IF loops = <<>> THEN <<>> ELSE loops[1] \o Flatten(Tail(loops))

PointsOfMutCentre(p) ==
  CASE p.tipo \in {"LINE", "POLYLINE", "TEXT", "MTEXT"} -> p.data.pts
    [] p.tipo \in {"CIRCLE", "ARC"} -> p.data.pts
    [] p.tipo = "HATCH" -> Flatten(p.data.loops)
    [] OTHER -> <<>>

\* the points one primitive passes to upd, in the order of the calls
PointsOf(p) ==
  CASE p.tipo \in {"LINE", "POLYLINE", "TEXT", "MTEXT"} -> p.data.pts
    [] p.tipo \in {"CIRCLE", "ARC"} ->
         << <<p.data.pts[1][1] - p.data.r, p.data.pts[1][2] - p.data.r>>,
            <<p.data.pts[1][1] + p.data.r, p.data.pts[1][2] + p.data.r>> >>
    [] p.tipo = "HATCH" -> Flatten(p.data.loops)
    [] OTHER -> <<>>

\* min() and max() of two numbers
Min2(a, b) == IF a <= b THEN a ELSE b

Max2(a, b) == IF a >= b THEN a ELSE b

\* upd(x, y); an accumulator still at (inf, inf, -inf, -inf) is None
Upd(acc, pt) ==
  IF acc = None THEN <<pt[1], pt[2], pt[1], pt[2]>>
  ELSE <<Min2(acc[1], pt[1]), Min2(acc[2], pt[2]), Max2(acc[3], pt[1]), Max2(acc[4], pt[2])>>

RECURSIVE UpdAll(_, _)
\* the calls of upd for a run of points, in order: the first half of the
\* run, then the second half
UpdAll(acc, pts) ==
  IF pts = <<>> THEN acc
  ELSE IF Len(pts) = 1 THEN Upd(acc, pts[1])
  ELSE LET h == Len(pts) \div 2
           left == UpdAll(acc, SubSeq(pts, 1, h))
       IN IF left = None THEN None ELSE UpdAll(left, SubSeq(pts, h + 1, Len(pts)))

RECURSIVE ExtentsFrom(_, _)
\* "for p in prims"
ExtentsFrom(acc, ps) ==
  IF ps = <<>> THEN acc ELSE ExtentsFrom(UpdAll(acc, PointsOf(ps[1])), Tail(ps))

\* calcular_extents_primitivas(prims): None, or <<xmin, ymin, xmax, ymax>>
CalcularExtents(ps) == ExtentsFrom(None, ps)

(***************************************************************************)
(* Documents                                                               *)
(***************************************************************************)
\* an entity with every attribute the extractor reads; the constructors
\* below fill in the ones a kind uses.  malformed: a geometry attribute of
\* the branch cannot be read.  bad_attr: "linetype" when dxf.linetype holds a
\* value that is not a string (a non-zero number), "lineweight" when
\* dxf.lineweight holds an unhashable value (a list); "none" otherwise.
Entity(dxftype, layer, color) ==
  [dxftype |-> dxftype, layer |-> layer, color |-> color,
   lineweight |-> None, linetype |-> None, invisible |-> FALSE,
   pts |-> <<>>, radius |-> 0, text |-> "", paths |-> <<>>,
   name |-> "", xscale |-> 1, yscale |-> 1, rotation |-> 0, insert |-> <<0, 0>>,
   malformed |-> FALSE, closed |-> FALSE, bad_attr |-> "none"]

Line(layer, color, p1, p2) == [Entity("LINE", layer, color) EXCEPT !.pts = <<p1, p2>>]

LwPolyline(layer, color, pts) == [Entity("LWPOLYLINE", layer, color) EXCEPT !.pts = pts]

Circle(layer, color, c, r) ==
  [Entity("CIRCLE", layer, color) EXCEPT !.pts = <<c>>, !.radius = r]

Arc(layer, color, c, r) ==
  [Entity("ARC", layer, color) EXCEPT !.pts = <<c>>, !.radius = r]

Text(kind, layer, color, p, txt) ==
  [Entity(kind, layer, color) EXCEPT !.pts = <<p>>, !.text = txt]

Hatch(layer, color, paths) == [Entity("HATCH", layer, color) EXCEPT !.paths = paths]

Insert(layer, color, name, sx, sy, q, at) ==
  [Entity("INSERT", layer, color) EXCEPT
     !.name = name, !.xscale = sx, !.yscale = sy, !.rotation = q, !.insert = at]

\* a boundary edge with every attribute hatch_loops reads
Edge(p1, p2) ==
  [kind |-> "LineEdge", start |-> p1, end |-> p2, center |-> <<0, 0>>, radius |-> 0,
   start_angle |-> 0, end_angle |-> 0, ccw |-> TRUE]

ArcEdge(c, r, a0, a1, ccw) ==
  [kind |-> "ArcEdge", start |-> <<0, 0>>, end |-> <<0, 0>>, center |-> c, radius |-> r,
   start_angle |-> a0, end_angle |-> a1, ccw |-> ccw]

SplineEdge == [Edge(<<0, 0>>, <<0, 0>>) EXCEPT !.kind = "SplineEdge"]

LayerRec(color, lw, lt, off, frozen) ==
  [color |-> color, lineweight |-> lw, linetype |-> lt, is_off |-> off, is_frozen |-> frozen]

\* the layer table shared by the documents; "NoSuch" is deliberately absent
Layers ==
  [n \in {"0", "L1", "L2", "L3", "L4", "Off", "Frz"} |->
     CASE n = "0"   -> LayerRec(Some(7), Some(-3), Some("Continuous"), FALSE, FALSE)
       [] n = "L1"  -> LayerRec(Some(1), Some(30), Some("DASHED"), FALSE, FALSE)
       [] n = "L2"  -> LayerRec(Some(3), None, Some(""), FALSE, FALSE)
       [] n = "L3"  -> LayerRec(None, Some(-7), None, FALSE, FALSE)
       [] n = "L4"  -> LayerRec(Some(BYLAYER), Some(-2), Some("HIDDEN"), FALSE, FALSE)
       [] n = "Off" -> LayerRec(Some(-5), Some(0), Some("HIDDEN"), TRUE, FALSE)
       [] n = "Frz" -> LayerRec(Some(BYLAYER), Some(0), Some("CENTER"), FALSE, TRUE)]

BlockNames == {"A", "Outer", "Inner", "Empty", "Gone"}

NoBlocks == [n \in {} |-> <<>>]

\* a block that inserts itself twice: exponential growth, cyclic reference
DocRecursive ==
  [file |-> "dxf", layers |-> Layers,
   msp |-> << Insert("0", Some(5), "A", 1, 1, 0, <<0, 0>>),
              Line("0", None, <<0, 0>>, <<1, 1>>),
              Insert("0", None, "A", 1, 1, 0, <<3, 0>>),
              Line("L1", None, <<0, 0>>, <<2, 2>>) >>,
   blocks |-> [n \in {"A"} |->
                << Line("0", Some(BYBLOCK), <<0, 0>>, <<1, 0>>),
                   Insert("0", Some(BYBLOCK), "A", 1, 1, 0, <<1, 0>>),
                   Insert("L1", Some(BYLAYER), "A", 1, 1, 1, <<0, 1>>) >>]]

ColorChoices ==
  {None, Some(BYBLOCK), Some(1), Some(5), Some(255), Some(BYLAYER), Some(257), Some(-4)}

PlacementChoices ==
  { [sx |-> 1, sy |-> 1, q |-> 0, at |-> <<10, 0>>],
    [sx |-> 1, sy |-> 1, q |-> 1, at |-> <<0, 20>>],
    [sx |-> 2, sy |-> 3, q |-> 0, at |-> <<0, 0>>] }

\* a two-level nesting: model space inserts Outer, Outer inserts Inner
DocNested(oc, ic, op, ip) ==
  [file |-> "dxf", layers |-> Layers,
   msp |-> << Insert("L1", oc, "Outer", op.sx, op.sy, op.q, op.at) >>,
   blocks |-> [n \in {"Outer", "Inner", "Empty"} |->
      CASE n = "Outer" ->
             << Insert("L2", ic, "Inner", ip.sx, ip.sy, ip.q, ip.at),
                Line("L2", Some(BYBLOCK), <<0, 0>>, <<1, 2>>),
                Insert("0", None, "Empty", 1, 1, 0, <<0, 0>>),
                Insert("0", None, "Gone", 1, 1, 0, <<0, 0>>) >>
        [] n = "Inner" ->
             << Line("0", Some(BYBLOCK), <<1, 0>>, <<2, 1>>),
                Hatch("0", Some(BYBLOCK),
                      << <<Edge(<<0, 0>>, <<4, 0>>), Edge(<<4, 0>>, <<4, 4>>)>> >>),
                Circle("L3", Some(BYBLOCK), <<1, 1>>, 2),
                Text("TEXT", "0", Some(BYBLOCK), <<0, 1>>, "abc") >>
        [] n = "Empty" -> <<>>]]

LayerChoices == {"L1", "L2", "L3", "L4", "NoSuch"}

LineweightChoices ==
  {None, Some(-1), Some(-2), Some(-3), Some(0), Some(25), Some(-5), Some(5), Some(17)}

LinetypeChoices == {None, Some(""), Some("bylayer"), Some("ByBlock"), Some("dashed")}

\* flat documents: one entity whose attributes vary, followed by entities
\* of every other kind, visible and not, well-formed and not
Others ==
  << [LwPolyline("0", Some(2), << <<0, 0>>, <<1, 0>>, <<1, 1>> >>) EXCEPT !.closed = TRUE],
     LwPolyline("0", Some(2), <<>>),
     [Line("0", Some(1), <<0, 0>>, <<1, 1>>) EXCEPT !.invisible = TRUE],
     Line("Off", Some(1), <<0, 0>>, <<1, 1>>),
     Circle("Frz", Some(1), <<0, 0>>, 1),
     [Circle("0", Some(1), <<0, 0>>, 1) EXCEPT !.malformed = TRUE],
     Arc("NoSuch", Some(4), <<2, 2>>, 1),
     Text("TEXT", "0", Some(3), <<0, 0>>, "  "),
     Text("MTEXT", "0", Some(3), <<4, 4>>, "note"),
     Hatch("0", Some(6), << <<Edge(<<0, 0>>, <<1, 0>>), Edge(<<1, 0>>, <<0, 0>>)>>, <<>> >>),
     Hatch("0", Some(6), << <<>> >>),
     Entity("POINT", "0", Some(1)) >>

DocFlat(e) ==
  [file |-> "dxf", layers |-> Layers, msp |-> <<e>> \o Others, blocks |-> NoBlocks]

\* INSERTs and entities that are invisible or on a layer that is off or
\* frozen, at every level
DocHidden ==
  [file |-> "dxf", layers |-> Layers,
   msp |-> << [Insert("0", Some(5), "Outer", 1, 1, 0, <<0, 0>>) EXCEPT !.invisible = TRUE],
              Insert("Off", Some(5), "Outer", 1, 1, 0, <<0, 0>>),
              Insert("0", Some(5), "Outer", 1, 1, 0, <<7, 0>>),
              Line("L1", Some(1), <<0, 0>>, <<1, 1>>) >>,
   blocks |-> [n \in {"Outer", "Inner"} |->
      CASE n = "Outer" ->
             << Line("0", Some(1), <<0, 0>>, <<1, 0>>),
                Insert("Frz", Some(5), "Inner", 1, 1, 0, <<1, 1>>),
                [Insert("0", Some(5), "Inner", 1, 1, 0, <<1, 1>>) EXCEPT !.invisible = TRUE],
                Insert("NoSuch", Some(5), "Inner", 1, 1, 0, <<2, 2>>),
                Line("Off", Some(3), <<0, 0>>, <<0, 1>>) >>
        [] n = "Inner" ->
             << Line("L1", Some(1), <<0, 0>>, <<2, 0>>),
                [Circle("L1", Some(2), <<0, 0>>, 1) EXCEPT !.invisible = TRUE],
                Line("Frz", Some(3), <<0, 0>>, <<0, 2>>),
                Text("TEXT", "L1", Some(3), <<0, 0>>, "t") >>]]

\* polylines just above and at the vertex count from which paint may
\* decimate, closed and open, and a closed polyline of two vertices
ManyPoints(n) == [i \in 1..n |-> <<i, i % 7>>]

DocBigPolyline ==
  [file |-> "dxf", layers |-> Layers,
   msp |-> << [LwPolyline("0", Some(2), ManyPoints(SIMPLIFY_MIN_VERTICES + 1))
                 EXCEPT !.closed = TRUE],
              LwPolyline("0", Some(3), ManyPoints(SIMPLIFY_MIN_VERTICES)),
              LwPolyline("L1", Some(4), ManyPoints(SIMPLIFY_MIN_VERTICES + 2)),
              [LwPolyline("L1", Some(4), ManyPoints(2)) EXCEPT !.closed = TRUE] >>,
   blocks |-> NoBlocks]

\* layers whose primitives lie more than the padding away from the origin:
\* one holding only an MTEXT, one holding only a HATCH, one holding a line
\* near the origin and a text and an MTEXT far from it
DocFar ==
  [file |-> "dxf", layers |-> Layers,
   msp |-> << Text("MTEXT", "L2", Some(3), <<5000000, 5000000>>, "far"),
              Hatch("L3", Some(6),
                    << <<Edge(<<4000000, 4000000>>, <<6000000, 4000000>>),
                         Edge(<<6000000, 4000000>>, <<6000000, 6000000>>)>> >>),
              Line("0", Some(1), <<0, 0>>, <<1000000, 0>>),
              Text("TEXT", "0", Some(3), <<0, 3000000>>, "near"),
              Text("MTEXT", "0", Some(3), <<9000000, 0>>, "far") >>,
   blocks |-> NoBlocks]

\* hatches whose loops end at, within and beyond the closing tolerance of
\* their first point, and loops made of arc edges: after a line, before a
\* line, a full turn on its own, two arcs, an edge of another type
RadiusChoice == 50

HatchPathChoices ==
  { <<Edge(<<0, 0>>, <<5, 0>>), Edge(<<5, 0>>, <<0, 0>>)>>,
    <<Edge(<<0, 0>>, <<5, 0>>), Edge(<<5, 0>>, <<1, 0>>)>>,
    <<Edge(<<0, 0>>, <<5, 0>>), Edge(<<5, 0>>, <<1, 1>>)>>,
    <<Edge(<<0, 0>>, <<5, 0>>), Edge(<<5, 0>>, <<0, -1>>)>>,
    <<Edge(<<0, 0>>, <<5, 0>>), Edge(<<5, 0>>, <<2, 0>>)>>,
    <<Edge(<<0, 0>>, <<5, 0>>), Edge(<<5, 0>>, <<0, 2>>)>>,
    <<Edge(<<0, 0>>, <<5, 0>>), Edge(<<5, 0>>, <<-2, 1>>)>>,
    <<Edge(<<0, 0>>, <<5, 5>>)>>,
    <<Edge(<<3, 3>>, <<3, 3>>)>>,
    <<Edge(<<0, 0>>, <<50, 0>>),
      ArcEdge(<<0, 0>>, RadiusChoice, 0, 90, FALSE),
      Edge(<<0, 50>>, <<0, 0>>)>>,
    <<ArcEdge(<<0, 0>>, RadiusChoice, 0, 180, FALSE), Edge(<<-50, 0>>, <<50, 0>>)>>,
    <<ArcEdge(<<10, 10>>, RadiusChoice, 0, 360, FALSE)>>,
    <<ArcEdge(<<10, 10>>, RadiusChoice, 90, 90, TRUE)>>,
    <<ArcEdge(<<0, 0>>, RadiusChoice, 0, 180, FALSE), ArcEdge(<<0, 0>>, RadiusChoice, 180, 0, FALSE)>>,
    <<SplineEdge, Edge(<<0, 0>>, <<7, 0>>), SplineEdge, ArcEdge(<<0, 0>>, 7, 0, 90, FALSE)>>,
    <<SplineEdge>>,
    <<>> }

DocHatch(path) ==
  [file |-> "dxf", layers |-> Layers,
   msp |-> << Hatch("0", Some(6), <<path>>),
              Hatch("L1", Some(6), << <<SplineEdge>>, path, <<>>, path >>),
              Line("0", Some(1), <<0, 0>>, <<1, 1>>) >>,
   blocks |-> NoBlocks]

\* a valid drawing with nothing in model space
DocEmpty == [file |-> "dxf", layers |-> Layers, msp |-> <<>>, blocks |-> NoBlocks]

\* a valid drawing holding one line
DocSingleLine ==
  [file |-> "dxf", layers |-> Layers,
   msp |-> << Line("0", Some(1), <<0, 0>>, <<10, 5>>) >>, blocks |-> NoBlocks]

\* a path that is not a file, and a file ezdxf.readfile cannot parse: there
\* is no document to traverse
NoDocument(why) == [file |-> why, layers |-> Layers, msp |-> <<>>, blocks |-> NoBlocks]

\* "os.path.isfile(path)" holds and "ezdxf.readfile(path)" returns
Readable(d) == d.file = "dxf"

Documents ==
  {DocRecursive, DocEmpty, DocSingleLine, DocHidden, DocBigPolyline, DocFar,
   NoDocument("missing"), NoDocument("garbage")}
  \cup {DocNested(oc, ic, op, ip) :
          oc \in {Some(5), Some(BYLAYER), Some(BYBLOCK)},
          ic \in {Some(BYBLOCK), Some(1), None},
          op \in PlacementChoices, ip \in PlacementChoices}
  \cup {DocHatch(path) : path \in HatchPathChoices}
  \cup {DocFlat(Line(l, c, <<0, 0>>, <<1, 1>>)) : l \in LayerChoices, c \in ColorChoices}
  \cup {DocFlat([Line(l, None, <<0, 0>>, <<1, 1>>) EXCEPT !.lineweight = w]) :
          l \in LayerChoices, w \in LineweightChoices}
  \cup {DocFlat([Line(l, None, <<0, 0>>, <<1, 1>>) EXCEPT !.linetype = t]) :
          l \in LayerChoices, t \in LinetypeChoices}

\* entity objects whose linetype or lineweight has a type the DXF reader
\* never produces: in model space between two lines, and two levels down,
\* in a block, between two lines
Faulty(e, bad) == [e EXCEPT !.bad_attr = bad]

DocFaultyFlat(bad) ==
  [file |-> "dxf", layers |-> Layers,
   msp |-> << Line("0", Some(1), <<0, 0>>, <<1, 1>>),
              Faulty(Line("L1", Some(2), <<0, 0>>, <<2, 2>>), bad),
              Line("0", Some(3), <<0, 0>>, <<3, 3>>) >>,
   blocks |-> NoBlocks]

DocFaultyNested(bad) ==
  [file |-> "dxf", layers |-> Layers,
   msp |-> << Line("0", Some(1), <<0, 0>>, <<1, 1>>),
              Insert("0", Some(5), "Outer", 1, 1, 0, <<5, 5>>),
              Line("0", Some(3), <<0, 0>>, <<3, 3>>) >>,
   blocks |-> [n \in {"Outer", "Inner"} |->
      CASE n = "Outer" ->
             << Line("0", Some(1), <<0, 0>>, <<1, 0>>),
                Insert("0", Some(5), "Inner", 1, 1, 0, <<1, 1>>),
                Line("0", Some(3), <<0, 0>>, <<0, 1>>) >>
        [] n = "Inner" ->
             << Line("L1", Some(1), <<0, 0>>, <<2, 0>>),
                Faulty(Circle("L1", Some(2), <<0, 0>>, 1), bad),
                [Faulty(Circle("L1", Some(2), <<0, 0>>, 1), bad) EXCEPT !.invisible = TRUE],
                Line("L1", Some(3), <<0, 0>>, <<0, 2>>) >>]]

FaultyDocuments ==
  {DocFaultyFlat(bad) : bad \in {"linetype", "lineweight"}}
  \cup {DocFaultyNested(bad) : bad \in {"linetype", "lineweight"}}

\* the keyword arguments of extraer_primitivas_basicas; limitar 0 stands for
\* None (both are falsy in "if limitar and ...")
Options ==
  [limitar : {0, SmallLimit},
   expand_blocks : BOOLEAN,
   max_block_repeats : {SmallRepeatCap, DefaultMaxBlockRepeats},
   max_total_after_blocks : {SmallTotalCap, DefaultMaxTotal},
   incluir_texto : BOOLEAN,
   incluir_hatch : BOOLEAN]

(***************************************************************************)
(* Guards of entity_to_prims                                               *)
(***************************************************************************)
\* "if limitar and cuenta >= limitar"
LimitReached(c) == opts.limitar # 0 /\ c >= opts.limitar

TotalReachedMutStrict(c) == c > opts.max_total_after_blocks

\* "if cuenta >= max_total_after_blocks"
TotalReached(c) == c >= opts.max_total_after_blocks

DepthExceededMutLate(depth) == depth > DepthCap + 1

\* "if depth > 8"
DepthExceeded(depth) == depth > DepthCap

RepeatExceededMutLate(n) == n > opts.max_block_repeats + 1

\* "if block_repeats[name] > max_block_repeats"
RepeatExceeded(n) == n > opts.max_block_repeats

LayerIsVisibleMutFrozen(layers, name) ==
  IF ~HasLayer(layers, name) THEN TRUE ELSE ~layers[name].is_off

\* _layer_is_visible(doc, layer_name)
LayerIsVisible(layers, name) ==
  IF ~HasLayer(layers, name) THEN TRUE
  ELSE ~layers[name].is_off /\ ~layers[name].is_frozen

\* entidad_visible(e)
EntidadVisible(e) == ~e.invisible /\ LayerIsVisible(doc.layers, e.layer)

\* the branch of the if/elif chain an entity takes
Branch(e) ==
  CASE e.dxftype = "LINE" -> "LINE"
    [] e.dxftype \in {"LWPOLYLINE", "POLYLINE"} -> "POLYLINE"
    [] e.dxftype = "CIRCLE" -> "CIRCLE"
    [] e.dxftype = "ARC" -> "ARC"
    [] opts.incluir_texto /\ e.dxftype = "TEXT" -> "TEXT"
    [] opts.incluir_texto /\ e.dxftype = "MTEXT" -> "MTEXT"
    [] opts.incluir_hatch /\ e.dxftype = "HATCH" -> "HATCH"
    [] opts.expand_blocks /\ e.dxftype = "INSERT" -> "INSERT"
    [] OTHER -> "NONE"

PrimitiveKinds == {"LINE", "POLYLINE", "CIRCLE", "ARC", "TEXT", "MTEXT", "HATCH"}

\* the inner conditions "if pts:", "if txt.strip():", "if loops:"
Emits(e) ==
  CASE Branch(e) \in {"LINE", "CIRCLE", "ARC"} -> TRUE
    [] Branch(e) = "POLYLINE" -> e.pts # <<>>
    [] Branch(e) \in {"TEXT", "MTEXT"} -> ~IsBlank(e.text)
    [] Branch(e) = "HATCH" -> HatchLoops(e.paths) # <<>>
    [] OTHER -> FALSE

\* the Primitive one branch builds (base_data() and the geometry payload)
MakePrimitive(e, transform, block_name, byblock_color) ==
  [tipo |-> Branch(e),
   layer |-> e.layer,
   color |-> EffectiveColor(doc.layers, e, byblock_color),
   data |-> [lw |-> EffectiveLineweight(doc.layers, e)[1],
             lt |-> EffectiveLinetype(doc.layers, e)[1],
             pts |-> IF Branch(e) = "HATCH" THEN <<>> ELSE ApplyAll(e.pts, transform),
             closed |-> e.closed,
             r |-> e.radius,
             loops |-> IF Branch(e) = "HATCH" THEN HatchLoops(e.paths) ELSE <<>>,
             value |-> e.text],
   is_block |-> block_name # None,
   block_name |-> block_name]

(***************************************************************************)
(* The traversal                                                           *)
(***************************************************************************)
Top == stack[Len(stack)]

\* a call of entity_to_prims is about to start
HasCall ==
  /\ pc = "loop" /\ Readable(doc)
  /\ IF stack = <<>> THEN mspIdx <= Len(doc.msp)
     ELSE Top.i <= Len(doc.blocks[Top.name])

\* where an entity sits: <<name of the layout, index in it>>
ModelSpace == "*Model_Space"

EntityAt(ref) ==
  IF ref[1] = ModelSpace THEN doc.msp[ref[2]] ELSE doc.blocks[ref[1]][ref[2]]

\* its arguments; ref and chain are history: the place of the entity and of
\* the INSERTs above it, outermost first
Cur ==
  IF stack = <<>>
  THEN [e |-> doc.msp[mspIdx], transform |-> None, depth |-> 0,
        block_name |-> None, byblock_color |-> None,
        ref |-> <<ModelSpace, mspIdx>>, chain |-> <<>>]
  ELSE [e |-> doc.blocks[Top.name][Top.i], transform |-> Top.transform,
        depth |-> Top.depth, block_name |-> Some(Top.name),
        byblock_color |-> Top.byblock_color,
        ref |-> <<Top.name, Top.i>>, chain |-> Top.chain]

\* the call returns to its loop: the block loop takes its next entity, the
\* model-space loop goes to its two break tests
Returned(stk) ==
  IF stk = <<>>
  THEN stack' = stk /\ pc' = "check" /\ mspIdx' = mspIdx
  ELSE stack' = [stk EXCEPT ![Len(stk)].i = @ + 1] /\ UNCHANGED <<pc, mspIdx>>

Entered == HasCall /\ ~LimitReached(cuenta) /\ ~TotalReached(cuenta)

\* "lw in specials" hashes its left operand: an unhashable value raises
\* TypeError at line 425; "lt.upper()" on a truthy value that is not a string
\* raises AttributeError at line 450.  Neither line is inside a try.
ResolverRaises(e) == e.bad_attr \in {"lineweight", "linetype"}

\* the call has resolved the entity's attributes (lines 609-614)
Dispatched == Entered /\ EntidadVisible(Cur.e) /\ ~ResolverRaises(Cur.e)

(***************************************************************************)
(* Calls of discretizar_arco                                               *)
(***************************************************************************)
\* the arguments tried: angles in degrees, among them what hatch_loops
\* passes for a full circle; the centre is the origin
ArcStartChoices == {0, 45, 90, 350, -30}

ArcEndChoices == {0, 45, 90, 400, -270, Degrees(360)}

ArcSegChoices == {1, 3, 4, 5, HATCH_ARC_SEGMENTS, 32}

ArcInputs ==
  [start_deg : ArcStartChoices, end_deg : ArcEndChoices, ccw : BOOLEAN, seg : ArcSegChoices]

\* a call that has not returned; angs will hold the values "ang" took in
\* the loop, each a whole number of 1/steps degree
ArcCall(a) == [args |-> a, pts |-> None, angs |-> <<>>, steps |-> 0]

\* the recursive document holds no text and no hatch: the two switches make
\* no difference to it and are left on
Scenario(d, o) == d = DocRecursive => (o.incluir_texto /\ o.incluir_hatch)

\* the state when extraer_primitivas_basicas has read its document
Start(documents) ==
  /\ doc \in documents
  /\ opts \in Options
  /\ Scenario(doc, opts)
  /\ prims = <<>>
  /\ hist = <<>>
  /\ cuenta = 0
  /\ block_repeats = [n \in BlockNames |-> 0]
  /\ expanded = [n \in BlockNames |-> 0]
  /\ stack = <<>>
  /\ mspIdx = 1
  /\ pc = "loop"
  /\ cap_skips = 0
  /\ simplify_render = TRUE
  /\ drawn = None
  /\ arc_call = None
  /\ win = None
  /\ load = None

Init == Start(Documents)

\* the same, the documents with ill-typed attributes included
InitFaulty == Start(Documents \cup FaultyDocuments)

\* lines 599-600
SkipLimit ==
  /\ HasCall /\ LimitReached(cuenta)
  /\ Returned(stack)
  /\ cap_skips' = cap_skips + 1
  /\ UNCHANGED <<arc_call, win, load, doc, opts, prims, hist, cuenta, block_repeats, expanded, simplify_render, drawn>>

\* lines 601-602
SkipTotal ==
  /\ HasCall /\ ~LimitReached(cuenta) /\ TotalReached(cuenta)
  /\ Returned(stack)
  /\ cap_skips' = cap_skips + 1
  /\ UNCHANGED <<arc_call, win, load, doc, opts, prims, hist, cuenta, block_repeats, expanded, simplify_render, drawn>>

\* lines 603-605
SkipInvisible ==
  /\ Entered /\ ~EntidadVisible(Cur.e)
  /\ Returned(stack)
  /\ UNCHANGED <<arc_call, win, load, doc, opts, prims, hist, cuenta, block_repeats, expanded, cap_skips, simplify_render, drawn>>

\* an attribute read of the branch raises: "except Exception: return"
EntityError ==
  /\ Dispatched /\ Cur.e.malformed
  /\ Branch(Cur.e) \notin {"NONE", "HATCH"}
  /\ ~(Branch(Cur.e) = "INSERT" /\ DepthExceeded(Cur.depth))
  /\ Returned(stack)
  /\ UNCHANGED <<arc_call, win, load, doc, opts, prims, hist, cuenta, block_repeats, expanded, cap_skips, simplify_render, drawn>>

AddPrimitiveMutFront(ps, p) == <<p>> \o ps

\* add_primitive: "prims.append(...)"
AddPrimitive(ps, p) == Append(ps, p)

\* a branch that reaches add_primitive; hist records, next to each
\* primitive, the call that made it
EmitPrimitive ==
  /\ Dispatched /\ ~Cur.e.malformed
  /\ Branch(Cur.e) \in PrimitiveKinds /\ Emits(Cur.e)
  /\ prims' = AddPrimitive(prims, MakePrimitive(Cur.e, Cur.transform, Cur.block_name,
                                                Cur.byblock_color))
  /\ hist' = AddPrimitive(hist,
                [ref |-> Cur.ref, transform |-> Cur.transform, depth |-> Cur.depth,
                 byblock_color |-> Cur.byblock_color, chain |-> Cur.chain,
                 lw_src |-> EffectiveLineweight(doc.layers, Cur.e)[2],
                 lt_src |-> EffectiveLinetype(doc.layers, Cur.e)[2]])
  /\ cuenta' = cuenta + 1
  /\ Returned(stack)
  /\ UNCHANGED <<arc_call, win, load, doc, opts, block_repeats, expanded, cap_skips, simplify_render, drawn>>

\* no branch matches, or the branch finds nothing to emit
NoPrimitive ==
  /\ Dispatched
  /\ \/ Branch(Cur.e) = "NONE"
     \/ Branch(Cur.e) = "HATCH" /\ (Cur.e.malformed \/ ~Emits(Cur.e))
     \/ Branch(Cur.e) \in PrimitiveKinds \ {"HATCH"} /\ ~Cur.e.malformed /\ ~Emits(Cur.e)
  /\ Returned(stack)
  /\ UNCHANGED <<arc_call, win, load, doc, opts, prims, hist, cuenta, block_repeats, expanded, cap_skips, simplify_render, drawn>>

\* lines 710-711
InsertDepthCut ==
  /\ Dispatched /\ Branch(Cur.e) = "INSERT"
  /\ DepthExceeded(Cur.depth)
  /\ Returned(stack)
  /\ cap_skips' = cap_skips + 1
  /\ UNCHANGED <<arc_call, win, load, doc, opts, prims, hist, cuenta, block_repeats, expanded, simplify_render, drawn>>

InsertCounted ==
  /\ Dispatched /\ Branch(Cur.e) = "INSERT" /\ ~Cur.e.malformed
  /\ ~DepthExceeded(Cur.depth)
  /\ block_repeats' = [block_repeats EXCEPT ![Cur.e.name] = @ + 1]

\* lines 712-715
InsertRepeatCut ==
  /\ InsertCounted
  /\ RepeatExceeded(block_repeats'[Cur.e.name])
  /\ Returned(stack)
  /\ cap_skips' = cap_skips + 1
  /\ UNCHANGED <<arc_call, win, load, doc, opts, prims, hist, cuenta, expanded, simplify_render, drawn>>

\* doc.blocks.get(name) gives nothing, or an empty block: "if blk:" is false
BlockIsEmpty(name) ==
  IF name \in DOMAIN doc.blocks THEN doc.blocks[name] = <<>> ELSE TRUE

\* lines 717-730 without a block to iterate
InsertNoBlock ==
  /\ InsertCounted
  /\ ~RepeatExceeded(block_repeats'[Cur.e.name])
  /\ BlockIsEmpty(Cur.e.name)
  /\ Returned(stack)
  /\ UNCHANGED <<arc_call, win, load, doc, opts, prims, hist, cuenta, expanded, cap_skips, simplify_render, drawn>>

\* lines 717-734: start the loop over the block's entities
InsertExpand ==
  /\ InsertCounted
  /\ ~RepeatExceeded(block_repeats'[Cur.e.name])
  /\ ~BlockIsEmpty(Cur.e.name)
  /\ stack' = Append(stack,
       [name |-> Cur.e.name, i |-> 1,
        transform |-> NextTransform(Cur.transform, InsertMatrix(Cur.e)),
        depth |-> Cur.depth + 1,
        byblock_color |-> Some(EffectiveColor(doc.layers, Cur.e, None)),
        chain |-> Append(Cur.chain, Cur.ref)])
  /\ expanded' = [expanded EXCEPT ![Cur.e.name] = @ + 1]
  /\ UNCHANGED <<arc_call, win, load, doc, opts, prims, hist, cuenta, pc, mspIdx, cap_skips, simplify_render, drawn>>

\* the loop over a block ends: the INSERT's call returns
BlockReturn ==
  /\ pc = "loop" /\ stack # <<>> /\ Top.i > Len(doc.blocks[Top.name])
  /\ Returned(SubSeq(stack, 1, Len(stack) - 1))
  /\ UNCHANGED <<arc_call, win, load, doc, opts, prims, hist, cuenta, block_repeats, expanded, cap_skips, simplify_render, drawn>>

\* lines 743-746: either break fires
MspBreak ==
  /\ pc = "check" /\ stack = <<>>
  /\ LimitReached(cuenta) \/ TotalReached(cuenta)
  /\ pc' = "done"
  /\ cap_skips' = cap_skips + (Len(doc.msp) - mspIdx)
  /\ UNCHANGED <<arc_call, win, load, doc, opts, prims, hist, cuenta, block_repeats, expanded, stack, mspIdx, simplify_render, drawn>>

\* line 741: next model-space entity
MspContinue ==
  /\ pc = "check" /\ stack = <<>>
  /\ ~(LimitReached(cuenta) \/ TotalReached(cuenta))
  /\ mspIdx' = mspIdx + 1
  /\ pc' = "loop"
  /\ UNCHANGED <<arc_call, win, load, doc, opts, prims, hist, cuenta, block_repeats, expanded, stack, cap_skips, simplify_render, drawn>>

\* line 748: the loop is exhausted, return prims
MspEnd ==
  /\ pc = "loop" /\ Readable(doc) /\ stack = <<>> /\ mspIdx > Len(doc.msp)
  /\ pc' = "done"
  /\ UNCHANGED <<arc_call, win, load, doc, opts, prims, hist, cuenta, block_repeats, expanded, stack, mspIdx, cap_skips, simplify_render, drawn>>

\* lines 479-484: the path is not a file, or readfile raises: return []
ReadFails ==
  /\ pc = "loop" /\ ~Readable(doc)
  /\ pc' = "done"
  /\ UNCHANGED <<arc_call, win, load, doc, opts, prims, hist, cuenta, block_repeats, expanded, stack, mspIdx, cap_skips, simplify_render, drawn>>

(***************************************************************************)
(* Exceptions that leave a resolver                                        *)
(***************************************************************************)
\* lines 613-614: a resolver raises and nothing in entity_to_prims catches
\* it there; the exception is in flight
AttributeRaise ==
  /\ Entered /\ EntidadVisible(Cur.e) /\ ResolverRaises(Cur.e)
  /\ pc' = "unwinding"
  /\ UNCHANGED <<arc_call, win, load, doc, opts, prims, hist, cuenta, block_repeats, expanded, stack, mspIdx, cap_skips, simplify_render, drawn>>

\* the call was made at line 734, inside the try of the INSERT's call:
\* "except Exception: return" ends that call, and with it its loop over the
\* block
CatchInInsert ==
  /\ pc = "unwinding" /\ stack # <<>>
  /\ LET stk == SubSeq(stack, 1, Len(stack) - 1)
     IN IF stk = <<>>
        THEN stack' = stk /\ pc' = "check"
        ELSE stack' = [stk EXCEPT ![Len(stk)].i = @ + 1] /\ pc' = "loop"
  /\ UNCHANGED <<arc_call, win, load, doc, opts, prims, hist, cuenta, block_repeats, expanded, mspIdx, cap_skips, simplify_render, drawn>>

\* the call was made at line 742, in the model-space loop: the exception
\* leaves extraer_primitivas_basicas and no list is returned
EscapeToCaller ==
  /\ pc = "unwinding" /\ stack = <<>>
  /\ pc' = "raised"
  /\ UNCHANGED <<arc_call, win, load, doc, opts, prims, hist, cuenta, block_repeats, expanded, stack, mspIdx, cap_skips, simplify_render, drawn>>

(***************************************************************************)
(* The layer items of the window (src/ui/main.py)                          *)
(***************************************************************************)
\* the call in _on_open: expand_blocks=True, incluir_texto=True, the rest
\* at their defaults
UiOptions ==
  [limitar |-> 0, expand_blocks |-> TRUE,
   max_block_repeats |-> DefaultMaxBlockRepeats,
   max_total_after_blocks |-> DefaultMaxTotal,
   incluir_texto |-> TRUE, incluir_hatch |-> TRUE]

\* what _on_open holds in "prims" after its try/except around the call
Loaded == IF pc = "done" THEN prims ELSE <<>>

\* the window has loaded the drawing
WindowLoaded == pc \in {"done", "raised"} /\ opts = UiOptions

\* _build_layer_items: the indices of the primitives of one layer, in order
IndicesOf(ps, layer) ==
  SelectSeq([i \in 1..Len(ps) |-> i], LAMBDA i : ps[i].layer = layer)

LayerNames(ps) == {ps[i].layer : i \in 1..Len(ps)}

\* pattern_map
PatternMap == {"DASHED", "HIDDEN", "CENTER", "PHANTOM"}

DetailedMutStrict(view_scale) == view_scale > LOD_SIMPLE_THRESHOLD

\* "detailed" and "show_text"
Detailed(view_scale) == view_scale >= LOD_SIMPLE_THRESHOLD

ShowText(view_scale) == view_scale >= LOD_TEXT_THRESHOLD

PenWidthMutAmplifyAt(lw100, view_scale) ==
  IF ~Detailed(view_scale) THEN 0
  ELSE IF lw100 <= 0 THEN 0
  ELSE LET base == lw100 * LINEWEIGHT_SCALE_BASE
           amp  == IF view_scale >= LOD_AMPLIFY_SCALE THEN (base * 115) \div 100 ELSE base
       IN IF amp < MIN_PEN_WIDTH THEN MIN_PEN_WIDTH ELSE amp

\* the width of the pen of one primitive, in 1/100000 pixel
PenWidth(lw100, view_scale) ==
  IF ~Detailed(view_scale) THEN 0
  ELSE IF lw100 <= 0 THEN 0
  ELSE LET base == lw100 * LINEWEIGHT_SCALE_BASE
           amp  == IF view_scale > LOD_AMPLIFY_SCALE THEN (base * 115) \div 100 ELSE base
       IN IF amp < MIN_PEN_WIDTH THEN MIN_PEN_WIDTH ELSE amp

\* the dash pattern of one primitive: the name of its pattern_map entry, or ""
DashOf(lt, view_scale) ==
  IF Detailed(view_scale) /\ Upper(lt) \in PatternMap THEN Upper(lt) ELSE ""

StepOfMutFrom400(n, simplify, view_scale) ==
  IF simplify /\ n >= SIMPLIFY_MIN_VERTICES /\ view_scale < SIMPLIFY_MAX_SCALE THEN 3 ELSE 1

\* the step of the loop over a polyline's vertices
StepOf(n, simplify, view_scale) ==
  IF simplify /\ n > SIMPLIFY_MIN_VERTICES /\ view_scale < SIMPLIFY_MAX_SCALE THEN 3 ELSE 1

\* "for i in range(0, len(pts) - 1, step)": the segments drawn, then the
\* closing segment
PolylineCalls(pts, closed, step) ==
  LET n == Len(pts)
      count == IF n <= 1 THEN 0 ELSE ((n - 2) \div step) + 1
      segs == [k \in 1..count |->
                 [op |-> "line", a |-> pts[1 + (k - 1) * step], b |-> pts[2 + (k - 1) * step]]]
  IN IF closed /\ n > 2
     THEN Append(segs, [op |-> "line", a |-> pts[n], b |-> pts[1]])
     ELSE segs

\* the draw calls of one primitive: the if/elif chain of paint
DrawCalls(p, simplify, view_scale) ==
  CASE p.tipo = "LINE" -> << [op |-> "line", a |-> p.data.pts[1], b |-> p.data.pts[2]] >>
    [] p.tipo = "POLYLINE" ->
         PolylineCalls(p.data.pts, p.data.closed,
                       StepOf(Len(p.data.pts), simplify, view_scale))
    [] p.tipo = "CIRCLE" ->
         << [op |-> "ellipse", a |-> p.data.pts[1], b |-> <<p.data.r, p.data.r>>] >>
    [] p.tipo = "ARC" ->
         << [op |-> "arc", a |-> p.data.pts[1], b |-> <<p.data.r, p.data.r>>] >>
    [] p.tipo = "TEXT" /\ ShowText(view_scale) ->
         IF IsBlank(p.data.value) THEN <<>>
         ELSE << [op |-> "text", a |-> p.data.pts[1], b |-> p.data.value] >>
    [] OTHER -> <<>>

\* one pass of the loop over self.primitives: the pen set, the calls made
Stroke(ps, i, simplify, view_scale) ==
  LET w == PenWidth(ps[i].data.lw, view_scale)
  IN [prim |-> i,
      color |-> ps[i].color,
      pen_w |-> w,
      cosmetic |-> (w = 0),
      dash |-> DashOf(ps[i].data.lt, view_scale),
      calls |-> DrawCalls(ps[i], simplify, view_scale)]

\* the points one primitive contributes to the min/max of _compute_bbox;
\* there is no branch for MTEXT and none for HATCH
BboxPointsOf(p) ==
  CASE p.tipo \in {"LINE", "POLYLINE"} -> {p.data.pts[j] : j \in 1..Len(p.data.pts)}
    [] p.tipo \in {"CIRCLE", "ARC"} ->
         { <<p.data.pts[1][1] - p.data.r, p.data.pts[1][2] - p.data.r>>,
           <<p.data.pts[1][1] + p.data.r, p.data.pts[1][2] + p.data.r>> }
    [] p.tipo = "TEXT" ->
         { p.data.pts[1],
           <<p.data.pts[1][1] + (TEXT_HEIGHT * 6) \div 10, p.data.pts[1][2] + TEXT_HEIGHT>> }
    [] OTHER -> {}

\* min() and max() over the points visited
Least(S) == CHOOSE x \in S : \A y \in S : x <= y

Greatest(S) == CHOOSE x \in S : \A y \in S : x >= y

\* LayerItem._compute_bbox(prims) for the primitives of one layer: the
\* QRectF as <<x, y, width, height>>
ComputeBbox(ps, layer) ==
  LET P == UNION {BboxPointsOf(ps[i]) : i \in {j \in 1..Len(ps) : ps[j].layer = layer}}
      xs == {pt[1] : pt \in P}
      ys == {pt[2] : pt \in P}
  IN IF P = {}
     THEN <<0 - BBOX_PAD, 0 - BBOX_PAD, 2 * BBOX_PAD, 2 * BBOX_PAD>>
     ELSE <<Least(xs) - BBOX_PAD, Least(ys) - BBOX_PAD,
            (Greatest(xs) - Least(xs)) + 2 * BBOX_PAD,
            (Greatest(ys) - Least(ys)) + 2 * BBOX_PAD>>

\* LayerItem.paint: what one call draws; rect is the rectangle of the box
\* tier, self.rect(), computed when the item was built
PaintOf(ps, layer, simplify, view_scale) ==
  IF view_scale < LOD_BOX_THRESHOLD
  THEN [layer |-> layer, view_scale |-> view_scale, box |-> TRUE, strokes |-> <<>>,
        rect |-> Some(ComputeBbox(ps, layer))]
  ELSE LET idx == IndicesOf(ps, layer)
       IN [layer |-> layer, view_scale |-> view_scale, box |-> FALSE, rect |-> None,
           strokes |-> [k \in 1..Len(idx) |-> Stroke(ps, idx[k], simplify, view_scale)]]

\* the view scales tried, in thousandths
ScaleChoices == {20, 30, 119, 120, 200, 349, 350, 400, 499, 500, 600, 700}

\* Qt repaints one visible layer item whose last output was invalidated, at
\* the view's current scale
Paint ==
  /\ WindowLoaded /\ drawn = None
  /\ \E layer \in LayerNames(Loaded), s \in ScaleChoices :
       drawn' = Some(PaintOf(Loaded, layer, simplify_render, s))
  /\ UNCHANGED <<arc_call, win, load, doc, opts, prims, hist, cuenta, block_repeats, expanded, stack, mspIdx, pc, cap_skips, simplify_render>>

\* _on_toggle_simplify(checked): "item.update()" on every layer item
\* invalidates what was painted
ToggleSimplify ==
  /\ WindowLoaded
  /\ \E checked \in BOOLEAN : simplify_render' = checked
  /\ drawn' = None
  /\ UNCHANGED <<arc_call, win, load, doc, opts, prims, hist, cuenta, block_repeats, expanded, stack, mspIdx, pc, cap_skips>>

\* wheelEvent: the view is rescaled, which invalidates what was painted
WheelEvent ==
  /\ WindowLoaded /\ drawn # None
  /\ drawn' = None
  /\ UNCHANGED <<arc_call, win, load, doc, opts, prims, hist, cuenta, block_repeats, expanded, stack, mspIdx, pc, cap_skips, simplify_render>>

Next ==
  \/ SkipLimit
  \/ SkipTotal
  \/ SkipInvisible
  \/ EntityError
  \/ EmitPrimitive
  \/ NoPrimitive
  \/ InsertDepthCut
  \/ InsertRepeatCut
  \/ InsertNoBlock
  \/ InsertExpand
  \/ BlockReturn
  \/ MspBreak
  \/ MspContinue
  \/ MspEnd
  \/ ReadFails
  \/ Paint
  \/ ToggleSimplify
  \/ WheelEvent

Spec == Init /\ [][Next]_vars

\* the traversal over entity objects of any type
NextFaulty ==
  \/ SkipLimit
  \/ SkipTotal
  \/ SkipInvisible
  \/ EntityError
  \/ EmitPrimitive
  \/ NoPrimitive
  \/ InsertDepthCut
  \/ InsertRepeatCut
  \/ InsertNoBlock
  \/ InsertExpand
  \/ BlockReturn
  \/ MspBreak
  \/ MspContinue
  \/ MspEnd
  \/ ReadFails
  \/ Paint
  \/ ToggleSimplify
  \/ WheelEvent
  \/ AttributeRaise
  \/ CatchInInsert
  \/ EscapeToCaller

SpecFaulty == InitFaulty /\ [][NextFaulty]_vars

\* the steps of the pass alone: extraer_primitivas_basicas runs to its return
\* before the window paints anything
NextPass ==
  \/ SkipLimit
  \/ SkipTotal
  \/ SkipInvisible
  \/ EntityError
  \/ EmitPrimitive
  \/ NoPrimitive
  \/ InsertDepthCut
  \/ InsertRepeatCut
  \/ InsertNoBlock
  \/ InsertExpand
  \/ BlockReturn
  \/ MspBreak
  \/ MspContinue
  \/ MspEnd
  \/ ReadFails

\* the documents whose pass is followed to its end under fairness: all but
\* the ones made for painting and for hatch loops, which hold no INSERT and
\* are walked by the same model-space loop as a DocFlat
PassDocuments ==
  Documents \ ({DocBigPolyline, DocFar} \cup {DocHatch(path) : path \in HatchPathChoices})

InitPass == Start(PassDocuments)

\* the pass runs on one thread to completion: a step that can be taken is taken
LiveSpec == InitPass /\ [][NextPass]_vars /\ WF_vars(NextPass)

TypeOK ==
  /\ Len(prims) = Len(hist)
  /\ cuenta = Len(prims)
  /\ pc \in {"loop", "check", "done", "unwinding", "raised"}

(***************************************************************************)
(* Properties                                                              *)
(***************************************************************************)
Emitted == 1..Len(prims)

\* the entity primitive i was made from, and the INSERTs above it
SourceOf(i) == EntityAt(hist[i].ref)

OuterInsertOf(i) == EntityAt(hist[i].chain[1])

InnerInsertOf(i) == EntityAt(hist[i].chain[2])

\* C1: at every point of the traversal the list of primitives holds at most
\* max_total_after_blocks primitives.
C1_WithinTotalCap == Len(prims) <= opts.max_total_after_blocks

\* the cap is met exactly, inside the expansion of the self-inserting block
C1_Witness ==
  /\ Len(prims) = opts.max_total_after_blocks
  /\ Len(stack) >= 2
  /\ Top.name = "A"

\* C2: the pass reaches its return on every document, cyclic block
\* references included, and the nesting of running block loops never
\* exceeds what the depth cap allows (no stack exhaustion, nothing raised).
C2_Terminates == [](Len(stack) <= DepthCap + 1) /\ <>(pc = "done")

\* the pass has returned after descending a cyclic block down to the cap
C2_Witness ==
  /\ pc = "done"
  /\ expanded["A"] > DepthCap
  /\ \E i \in Emitted : hist[i].depth > DepthCap

\* C3: no primitive is emitted from an entity at a level greater than 8
\* (model space is level 0, the children of a model-space INSERT level 1).
C3_NoPrimitiveBeyondLevel8 == \A i \in Emitted : hist[i].depth <= DepthCap

\* C4: for every block name, the number of INSERTs of that name whose block
\* is expanded in the pass is at most max_block_repeats.
C4_RepeatCap == \A n \in BlockNames : expanded[n] <= opts.max_block_repeats

\* the cap is used up and a further INSERT of the name has been refused
C4_Witness ==
  \E n \in BlockNames :
    /\ expanded[n] = opts.max_block_repeats
    /\ block_repeats[n] > opts.max_block_repeats

\* C5: a BYBLOCK primitive inside a BYBLOCK inner INSERT inside an outer
\* INSERT has the outer INSERT's own resolved colour.
C5_ByblockFromOutermost ==
  \A i \in Emitted :
    (/\ Len(hist[i].chain) = 2
     /\ SourceOf(i).color = Some(BYBLOCK)
     /\ InnerInsertOf(i).color = Some(BYBLOCK))
    => prims[i].color = EffectiveColor(doc.layers, OuterInsertOf(i), None)

\* C6: for a 2-level nested insert every emitted point is the block-local
\* point moved by the inner insert's placement first and the outer
\* insert's second.
C6_InnerThenOuter ==
  \A i \in Emitted :
    Len(hist[i].chain) = 2
    => prims[i].data.pts =
         [k \in 1..Len(SourceOf(i).pts) |->
            Transform(InsertMatrix(OuterInsertOf(i)),
                      Transform(InsertMatrix(InnerInsertOf(i)), SourceOf(i).pts[k]))]

\* C7: every coordinate of a primitive that comes from a block expansion is
\* the image of the block-local coordinate under the accumulated transform,
\* hatch loop points included.
C7_AllPointsInModelSpace ==
  \A i \in Emitted :
    hist[i].depth > 0
    => /\ prims[i].data.pts = ApplyAll(SourceOf(i).pts, hist[i].transform)
       /\ prims[i].data.loops =
            LET local == HatchLoops(SourceOf(i).paths)
            IN [l \in 1..Len(local) |-> ApplyAll(local[l], hist[i].transform)]

IsRgb(c) == Len(c) = 3 /\ \A k \in 1..3 : c[k] \in 0..255

\* the index _effective_color hands to the palette when it does not return
\* the inherited colour
FinalAci(e) ==
  IF e.color \in {None, Some(BYBLOCK), Some(BYLAYER)}
  THEN LayerAci(doc.layers, e)
  ELSE e.color[1]

Inherits(e, byblock_color) == e.color = Some(BYBLOCK) /\ byblock_color # None

\* C8: every emitted colour is a concrete RGB triple: the inherited RGB, a
\* palette RGB, or the grey fallback when the index is out of range.
C8_ConcreteRgb ==
  \A i \in Emitted :
    /\ IsRgb(prims[i].color)
    /\ \/ Inherits(SourceOf(i), hist[i].byblock_color)
          /\ prims[i].color = hist[i].byblock_color[1]
       \/ ~Inherits(SourceOf(i), hist[i].byblock_color)
          /\ AciInRange(FinalAci(SourceOf(i)))
          /\ prims[i].color = PaletteEntry(FinalAci(SourceOf(i)))
       \/ ~Inherits(SourceOf(i), hist[i].byblock_color)
          /\ ~AciInRange(FinalAci(SourceOf(i)))
          /\ prims[i].color = Grey

\* a layer whose own colour code is the symbolic 256 gave the grey fallback
C8_Witness ==
  \E i \in Emitted :
    /\ SourceOf(i).color \in {None, Some(BYLAYER)}
    /\ SourceOf(i).layer = "L4"
    /\ prims[i].color = Grey

\* the RGB of a colour code, grey when the palette has no such index
RgbOfCode(c) == IF AciInRange(c) THEN PaletteEntry(c) ELSE Grey

\* the layer's colour code, 7 when the layer is missing or has no colour
DocumentedLayerCode(e) ==
  IF e.layer \notin DOMAIN doc.layers THEN 7
  ELSE IF doc.layers[e.layer].color = None THEN 7
  ELSE doc.layers[e.layer].color[1]

\* the documented chain, case by case
DocumentedColor(e, inherited) ==
  CASE e.color = Some(BYBLOCK) /\ inherited # None -> inherited[1]
    [] e.color = Some(BYBLOCK) /\ inherited = None -> RgbOfCode(DocumentedLayerCode(e))
    [] e.color = Some(BYLAYER) \/ e.color = None -> RgbOfCode(DocumentedLayerCode(e))
    [] OTHER -> RgbOfCode(e.color[1])

\* C9: the colour of every primitive, and the colour every INSERT hands to
\* its block, is the one the documented chain gives.
C9_DocumentedChain ==
  /\ \A i \in Emitted :
       prims[i].color = DocumentedColor(SourceOf(i), hist[i].byblock_color)
  /\ \A k \in 1..Len(stack) :
       stack[k].byblock_color =
         Some(DocumentedColor(EntityAt(stack[k].chain[Len(stack[k].chain)]), None))

\* a BYBLOCK entity with nothing to inherit took its layer's colour
C9_Witness ==
  \E i \in Emitted :
    /\ SourceOf(i).color = Some(BYBLOCK)
    /\ hist[i].byblock_color = None
    /\ SourceOf(i).layer = "L1"
    /\ prims[i].color = <<255, 0, 0>>

\* C10: the lineweight of every primitive is an integer >= 0 and none of
\* the sentinels -1, -2, -3.
C10_LineweightNonNegative ==
  \A i \in Emitted : prims[i].data.lw >= 0 /\ prims[i].data.lw \notin {-1, -2, -3}

\* the layer of the entity gives a concrete lineweight / a non-empty linetype
LayerGivesLineweight(e) ==
  IF HasLayer(doc.layers, e.layer) THEN ~IsSpecialLw(doc.layers[e.layer].lineweight) ELSE FALSE

LayerGivesLinetype(e) ==
  IF HasLayer(doc.layers, e.layer)
  THEN doc.layers[e.layer].linetype \notin {None, Some("")}
  ELSE FALSE

\* C11: the source tag is DEFAULT whenever the returned value is a default:
\* a symbolic entity lineweight over a missing layer or a layer whose
\* lineweight is a sentinel gives (0, DEFAULT); a symbolic entity linetype
\* over a missing layer or a layer whose linetype is empty gives
\* (CONTINUOUS, DEFAULT); LAYER is returned only with the layer's concrete
\* value and ENTITY only with the entity's own value
C11_SourceTags ==
  \A i \in Emitted :
    LET e == SourceOf(i)
        d == prims[i].data
    IN /\ (IsSpecialLw(e.lineweight) /\ ~LayerGivesLineweight(e))
            => (d.lw = 0 /\ hist[i].lw_src = "DEFAULT")
       /\ (IsSymbolicLt(e.linetype) /\ ~LayerGivesLinetype(e))
            => (d.lt = "CONTINUOUS" /\ hist[i].lt_src = "DEFAULT")
       /\ hist[i].lw_src = "LAYER"
            => (IsSpecialLw(e.lineweight) /\ LayerGivesLineweight(e)
                /\ d.lw = doc.layers[e.layer].lineweight[1])
       /\ hist[i].lt_src = "LAYER"
            => (IsSymbolicLt(e.linetype) /\ LayerGivesLinetype(e)
                /\ d.lt = doc.layers[e.layer].linetype[1])
       /\ hist[i].lw_src = "ENTITY"
            => (~IsSpecialLw(e.lineweight) /\ d.lw = e.lineweight[1])
       /\ hist[i].lt_src = "ENTITY"
            => (~IsSymbolicLt(e.linetype) /\ d.lt = e.linetype[1])

\* an entity the extractor has a primitive for, geometry permitting
Drawable(e) ==
  EntidadVisible(e) /\ ~e.malformed /\ Branch(e) \in PrimitiveKinds /\ Emits(e)

\* the pass returned and no cap refused or cut anything
CompleteRun == pc = "done" /\ cap_skips = 0

Hidden(e) ==
  \/ e.invisible
  \/ IF HasLayer(doc.layers, e.layer)
     THEN doc.layers[e.layer].is_off \/ doc.layers[e.layer].is_frozen
     ELSE FALSE

\* C14: no emitted primitive comes from an entity that is flagged invisible
\* or whose own layer is off or frozen, at any nesting level, and none comes
\* out of the block of an INSERT that is invisible or on such a layer
C14_NoHiddenPrimitive ==
  \A i \in Emitted :
    /\ ~Hidden(SourceOf(i))
    /\ \A k \in 1..Len(hist[i].chain) : ~Hidden(EntityAt(hist[i].chain[k]))

\* hidden INSERTs were passed in model space and in a block, and the pass
\* still emitted a primitive two levels down
C14_Witness ==
  /\ pc = "done"
  /\ \E k \in 1..Len(doc.msp) : doc.msp[k].dxftype = "INSERT" /\ Hidden(doc.msp[k])
  /\ \E i \in Emitted :
       /\ hist[i].depth = 2
       /\ \E k \in 1..Len(doc.blocks[hist[i].chain[2][1]]) :
            LET e == doc.blocks[hist[i].chain[2][1]][k]
            IN e.dxftype = "INSERT" /\ Hidden(e)

\* the primitives read directly from model space
DirectPrimitives == {i \in Emitted : hist[i].depth = 0}

\* C15: limit caps only the primitives read directly from model space,
\* before block expansion: the primitives produced by expanding INSERT
\* blocks do not count toward limit and are not cut off by it
C15_LimitOnModelSpaceOnly ==
  /\ LimitReached(cuenta) => Cardinality(DirectPrimitives) >= opts.limitar
  /\ ~(stack # <<>> /\ HasCall /\ LimitReached(cuenta))

\* what a caller of extraer_primitivas_basicas observes once the call is
\* over: whether it returned, and the list it returned
Finished == pc \in {"done", "raised"}

Outcome == [returned |-> (pc = "done"), value |-> Loaded]

\* the outcome of a valid drawing that yields no primitive
EmptyOutcome == [returned |-> TRUE, value |-> <<>>]

\* C16: on a file that is missing or cannot be parsed, extraction surfaces
\* a failure: its outcome is distinguishable from that of a valid document
\* that yields no primitive
C16_ParseFailureSurfaced == (Finished /\ ~Readable(doc)) => Outcome # EmptyOutcome

\* "return prims": the value of the call, field by field
ReturnValue == [prims |-> prims]

\* C17: extraction returns, with the primitives, a count of the entities
\* skipped because of caps, and the count is 0 exactly when no cap
\* truncated the pass
C17_SkippedCountReturned ==
  pc = "done" =>
    /\ "skipped" \in DOMAIN ReturnValue
    /\ (ReturnValue.skipped = 0) <=> (cap_skips = 0)

\* the governing points of a primitive list: line endpoints, polyline
\* vertices, hatch loop points, the four corners of the box of a circle or
\* an arc, the insertion point of a text
GoverningPoints(ps) ==
  UNION { LET p == ps[i]
              c == p.data.pts
              r == p.data.r
          IN CASE p.tipo \in {"LINE", "POLYLINE"} -> {c[k] : k \in 1..Len(c)}
               [] p.tipo \in {"CIRCLE", "ARC"} ->
                    {<<c[1][1] + dx, c[1][2] + dy>> : dx \in {r, 0 - r}, dy \in {r, 0 - r}}
               [] p.tipo \in {"TEXT", "MTEXT"} -> {c[1]}
               [] p.tipo = "HATCH" ->
                    UNION {{p.data.loops[l][k] : k \in 1..Len(p.data.loops[l])} :
                             l \in 1..Len(p.data.loops)}
               [] OTHER -> {}
        : i \in 1..Len(ps) }

\* C18: calcular_extents_primitivas returns None exactly when no primitive
\* contributed a point; otherwise it returns the componentwise minimum and
\* maximum over the governing points, with xmin <= xmax and ymin <= ymax;
\* the single LINE (0,0)-(10,5) gives (0, 0, 10, 5)
C18_Extents ==
  Len(prims) <= MaxExtentsPrims =>
    LET r == CalcularExtents(prims)
        G == GoverningPoints(prims)
    IN /\ (r = None) <=> (G = {})
       /\ G # {} =>
            /\ r = << Least({g[1] : g \in G}), Least({g[2] : g \in G}),
                      Greatest({g[1] : g \in G}), Greatest({g[2] : g \in G}) >>
            /\ r[1] <= r[3] /\ r[2] <= r[4]
       /\ (doc = DocSingleLine /\ Len(prims) = 1) => r = <<0, 0, 10, 5>>

\* a list with a circle and a hatch in it has extents
C18_Witness ==
  /\ Len(prims) <= MaxExtentsPrims
  /\ \E i \in Emitted : prims[i].tipo = "CIRCLE"
  /\ \E i \in Emitted : prims[i].tipo = "HATCH"
  /\ CalcularExtents(prims) # None

\* the strokes of the last paint, and whether one of them drew a text
Strokes == drawn[1].strokes

DrewText(st) == \E c \in 1..Len(st.calls) : st.calls[c].op = "text"

\* C19: the tier of a paint is a function of the current scale alone, with
\* no dependence on earlier paints: below 0.03 only the layer's bounding
\* rectangle and no primitive; from 0.03 and below 0.12 strokes with
\* zero-width pens and no dash pattern; from 0.12 detailed mode; a boundary
\* belongs to the higher tier.  At 0.02 the box only, at 0.20 detailed with
\* text hidden, at 0.40 detailed with text visible.
C19_TierFromScale ==
  drawn # None =>
    LET s == drawn[1].view_scale
        ps == Loaded
    IN /\ s < 30 => (drawn[1].box /\ Strokes = <<>>)
       /\ s >= 30 => (~drawn[1].box
                      /\ Len(Strokes) = Cardinality({i \in 1..Len(ps) : ps[i].layer = drawn[1].layer}))
       /\ (s >= 30 /\ s < 120) =>
            \A k \in 1..Len(Strokes) :
              Strokes[k].pen_w = 0 /\ Strokes[k].cosmetic /\ Strokes[k].dash = ""
       /\ s >= 120 =>
            \A k \in 1..Len(Strokes) :
              LET d == ps[Strokes[k].prim].data
              IN /\ d.lw > 0 => (Strokes[k].pen_w > 0 /\ ~Strokes[k].cosmetic)
                 /\ Upper(d.lt) \in PatternMap => Strokes[k].dash = Upper(d.lt)
       /\ s < 350 => \A k \in 1..Len(Strokes) : ~DrewText(Strokes[k])
       /\ s >= 350 =>
            \A k \in 1..Len(Strokes) :
              (ps[Strokes[k].prim].tipo = "TEXT") => DrewText(Strokes[k])
       /\ s = 20 => drawn[1].box
       /\ s \in {200, 400} => ~drawn[1].box

\* a detailed paint at 0.40 of a layer holding a dashed line with a
\* lineweight and a text
C19_Witness ==
  /\ drawn # None
  /\ drawn[1].view_scale = 400
  /\ \E k \in 1..Len(Strokes) : Strokes[k].pen_w > 0 /\ Strokes[k].dash = "DASHED"
  /\ \E k \in 1..Len(Strokes) : DrewText(Strokes[k])

\* C20: at every paint with scale >= 0.35 every TEXT and MTEXT primitive of
\* the painted (visible) layer whose text is not blank is drawn, and at
\* every paint with scale < 0.35 none is drawn
C20_TextAtThreshold ==
  drawn # None =>
    \A i \in 1..Len(Loaded) :
      ( /\ Loaded[i].layer = drawn[1].layer
        /\ Loaded[i].tipo \in {"TEXT", "MTEXT"}
        /\ ~IsBlank(Loaded[i].data.value) )
      => ( (\E k \in 1..Len(Strokes) : Strokes[k].prim = i /\ DrewText(Strokes[k]))
           <=> drawn[1].view_scale >= 350 )

\* C21: in the detailed tier (scale >= 0.12) the pen of a primitive has
\* width 0 and is cosmetic when its lineweight is <= 0; otherwise its width
\* is (lw / 100) * 2.2 px, multiplied by 1.15 when the scale is strictly
\* above 0.6, and raised to 0.4 px when the result is below 0.4.  So a
\* positive lineweight never gives a pen thinner than 0.4 px and a scale of
\* 0.6 or less is not amplified.
C21_PenWidth ==
  (drawn # None /\ drawn[1].view_scale >= 120) =>
    \A k \in 1..Len(Strokes) :
      LET lw == Loaded[Strokes[k].prim].data.lw
          s == drawn[1].view_scale
          plain == lw * 2200
          amplified == (lw * 2200 * 115) \div 100
      IN /\ lw <= 0 => (Strokes[k].pen_w = 0 /\ Strokes[k].cosmetic)
         /\ lw > 0 =>
              /\ Strokes[k].pen_w >= 40000
              /\ ~Strokes[k].cosmetic
              /\ s <= 600 => Strokes[k].pen_w = Max2(plain, 40000)
              /\ s > 600 => Strokes[k].pen_w = Max2(amplified, 40000)

\* a paint at exactly 0.6 of a line of lineweight 25: 0.55 px, not amplified
C21_Witness ==
  /\ drawn # None
  /\ drawn[1].view_scale = 600
  /\ \E k \in 1..Len(Strokes) :
       Loaded[Strokes[k].prim].data.lw = 25 /\ Strokes[k].pen_w = 55000

\* the draw calls of stroke k that join vertex i and vertex i+1 (counted
\* from 0) of its polyline, and the one that closes it
SegmentCall(pts, i) == [op |-> "line", a |-> pts[i + 1], b |-> pts[i + 2]]

ClosingCall(pts) == [op |-> "line", a |-> pts[Len(pts)], b |-> pts[1]]

\* C22: a polyline is decimated exactly when the simplify flag is on, it has
\* more than 400 vertices and the scale is at least 0.03 and below 0.5; the
\* segments drawn are then those from vertex i to vertex i+1 for i = 0, 3,
\* 6, ... (i < n-1), and otherwise all n-1 consecutive segments.  The
\* closing segment of a closed polyline is drawn in both cases, and the
\* stored vertices are the ones the extractor emitted.
C22_Decimation ==
  drawn # None =>
    \A k \in 1..Len(Strokes) :
      LET p == Loaded[Strokes[k].prim]
          pts == p.data.pts
          n == Len(pts)
          s == drawn[1].view_scale
          calls == Strokes[k].calls
          decimated == simplify_render /\ n > 400 /\ s >= 30 /\ s < 500
          starts == {i \in 0..(n - 2) : decimated => i % 3 = 0}
          closes == p.data.closed /\ n > 2
      IN p.tipo = "POLYLINE" =>
           /\ \A i \in starts : \E c \in 1..Len(calls) : calls[c] = SegmentCall(pts, i)
           /\ \A i \in (0..(n - 2)) \ starts :
                \A c \in 1..Len(calls) : calls[c] # SegmentCall(pts, i) \/ (closes /\ c = Len(calls))
           /\ Len(calls) = Cardinality(starts) + (IF closes THEN 1 ELSE 0)
           /\ (p.data.closed /\ n >= 2) =>
                \E c \in 1..Len(calls) :
                  {calls[c].a, calls[c].b} = {pts[n], pts[1]}
           /\ closes => calls[Len(calls)] = ClosingCall(pts)
           /\ pts = ApplyAll(SourceOf(Strokes[k].prim).pts, hist[Strokes[k].prim].transform)

\* a decimated paint at 0.499 of the closed polyline of 401 vertices: 134
\* segments and the closing one
C22_Witness ==
  /\ drawn # None /\ simplify_render
  /\ drawn[1].view_scale = 499
  /\ \E k \in 1..Len(Strokes) :
       /\ Loaded[Strokes[k].prim].tipo = "POLYLINE"
       /\ Len(Loaded[Strokes[k].prim].data.pts) = 401
       /\ Loaded[Strokes[k].prim].data.closed
       /\ Len(Strokes[k].calls) = 135

(***************************************************************************)
(* The traversal without the two cuts on cuenta                            *)
(***************************************************************************)
\* entity_to_prims and the loops that call it, as a function: the places of
\* the entities that reach add_primitive when neither "limitar" nor
\* "max_total_after_blocks" ever stops a call.  st.out is the list of
\* places (the INSERTs above an entity, then the entity), st.reps is
\* block_repeats.  Only the first "most" places are computed.
RECURSIVE WalkEntity(_, _, _, _, _, _)
RECURSIVE WalkLayout(_, _, _, _, _, _)
WalkEntity(st, most, e, ref, chain, depth) ==
  IF ~EntidadVisible(e) THEN st
  ELSE IF Branch(e) \in PrimitiveKinds
  THEN (IF ~e.malformed /\ Emits(e)
        THEN [st EXCEPT !.out = Append(@, Append(chain, ref))]
        ELSE st)
  ELSE IF Branch(e) = "INSERT"
  THEN (IF DepthExceeded(depth) \/ e.malformed THEN st
        ELSE LET counted == [st EXCEPT !.reps[e.name] = @ + 1]
             IN IF RepeatExceeded(counted.reps[e.name]) \/ BlockIsEmpty(e.name)
                THEN counted
                ELSE WalkLayout(counted, most, e.name, 1, Append(chain, ref), depth + 1))
  ELSE st

\* "for be in blk" and "for e in msp", from entity i on
WalkLayout(st, most, name, i, chain, depth) ==
  LET entities == IF name = ModelSpace THEN doc.msp ELSE doc.blocks[name]
  IN IF i > Len(entities) \/ Len(st.out) >= most THEN st
     ELSE WalkLayout(WalkEntity(st, most, entities[i], <<name, i>>, chain, depth),
                     most, name, i + 1, chain, depth)

UncappedOrder(most) ==
  WalkLayout([out |-> <<>>, reps |-> [n \in BlockNames |-> 0]],
             most, ModelSpace, 1, <<>>, 0).out

\* the longest returned list that is compared with the traversal without cuts
MaxOrderPrims == 12

\* the place of primitive i: the INSERTs above its entity, then the entity
PlaceOf(i) == Append(hist[i].chain, hist[i].ref)

\* place p comes before place q in depth-first document order
Precedes(p, q) ==
  \E k \in 1..Len(p) :
    /\ k <= Len(q)
    /\ \A j \in 1..(k - 1) : p[j] = q[j]
    /\ p[k][1] = q[k][1] /\ p[k][2] < q[k][2]

\* C28: the primitives are in depth-first document order (all primitives of
\* a model-space entity, its expanded blocks included and in block order,
\* come before those of a later model-space entity), and a cut by limitar or
\* by max_total_after_blocks removes a suffix: the list returned is a prefix
\* of the list the traversal gives without these two cuts, under the same
\* depth and repeat caps, and it is that whole list when neither cut fired.
C28_DepthFirstPrefix ==
  /\ Len(prims) >= 2 =>
       LET p == PlaceOf(Len(prims) - 1)
           q == PlaceOf(Len(prims))
       IN Precedes(p, q) /\ p[1][2] <= q[1][2]
  /\ (pc = "done" /\ Len(prims) <= MaxOrderPrims) =>
       LET u == UncappedOrder(Len(prims) + 1)
       IN /\ Len(prims) <= Len(u)
          /\ \A i \in Emitted : PlaceOf(i) = u[i]
          /\ (~LimitReached(cuenta) /\ ~TotalReached(cuenta)) => Len(u) = Len(prims)

\* a run cut by a cap inside a block: three primitives returned, more in
\* the traversal without the cut
C28_Witness ==
  /\ pc = "done"
  /\ Len(prims) = 3
  /\ Len(UncappedOrder(4)) = 4
  /\ hist[3].depth > 0

\* the primitives of the layer item painted last
PaintedPrimitives == SelectSeq(Loaded, LAMBDA p : p.layer = drawn[1].layer)

\* the rectangle <<x, y, width, height>> contains the point
RectContains(rect, pt) ==
  /\ rect[1] <= pt[1] /\ pt[1] <= rect[1] + rect[3]
  /\ rect[2] <= pt[2] /\ pt[2] <= rect[2] + rect[4]

\* the rectangle of a layer item without a point: 3 x 3 around (0, 0)
DegenerateRect == <<-1500000, -1500000, 3000000, 3000000>>

\* C30: the rectangle drawn in the box tier contains every governing point
\* of every primitive of the painted layer, whatever its kind (LINE,
\* POLYLINE, CIRCLE, ARC, TEXT, MTEXT, HATCH), and a layer holding only
\* MTEXT or HATCH primitives does not get the degenerate rectangle around
\* (0, 0)
C30_BboxContainsLayer ==
  (drawn # None /\ drawn[1].box) =>
    /\ \A g \in GoverningPoints(PaintedPrimitives) : RectContains(drawn[1].rect[1], g)
    /\ (\A k \in 1..Len(PaintedPrimitives) : PaintedPrimitives[k].tipo \in {"MTEXT", "HATCH"})
         => drawn[1].rect[1] # DegenerateRect

\* the emitted HATCH primitives
HatchPrims == {i \in Emitted : prims[i].tipo = "HATCH"}

\* an edge of a type hatch_loops has a branch for (ellipse edges are not
\* modelled)
Handled(edge) == edge.kind \in {"LineEdge", "ArcEdge"}

\* the boundary paths of a hatch that give a loop: those with a handled edge
LoopSources(paths) ==
  SelectSeq(paths, LAMBDA path : \E m \in 1..Len(path) : Handled(path[m]))

\* the points of the loop's edges: the loop, or the loop without the point
\* the closing test appended
OpenPart(loop, path) == SubSeq(loop, 1, Len(PathPoints(path)))

\* C25: for every non-empty loop hatch_loops builds, exactly one point equal
\* to the first is appended when the last point is more than 1e-6 away from
\* the first in x or in y, and none when it is within 1e-6 in both; a path
\* without points gives no loop; a HATCH primitive is emitted only with at
\* least one loop and with incluir_hatch set.
C25_LoopClosing ==
  \A i \in HatchPrims :
    LET src == LoopSources(SourceOf(i).paths)
        loops == prims[i].data.loops
    IN /\ opts.incluir_hatch
       /\ Len(loops) >= 1
       /\ Len(loops) = Len(src)
       /\ \A j \in 1..Len(loops) :
            LET raw == PathPoints(src[j])
                first == raw[1]
                last == raw[Len(raw)]
                apart == \/ last[1] - first[1] > 1 \/ first[1] - last[1] > 1
                         \/ last[2] - first[2] > 1 \/ first[2] - last[2] > 1
            IN /\ raw # <<>>
               /\ OpenPart(loops[j], src[j]) = raw
               /\ apart => loops[j] = Append(raw, first)
               /\ ~apart => loops[j] = raw

\* a loop whose last point is one millionth away from its first, in x and
\* in y, and to which nothing was appended
C25_Witness ==
  \E i \in HatchPrims :
    \E j \in 1..Len(prims[i].data.loops) :
      LET loop == prims[i].data.loops[j]
      IN /\ loop = PathPoints(LoopSources(SourceOf(i).paths)[j])
         /\ loop[Len(loop)][1] - loop[1][1] = 1
         /\ loop[Len(loop)][2] - loop[1][2] = 1

\* the number of points of an edge: two ends of a line edge, 29 points of an
\* arc edge cut into 28 segments
FullCount(edge) ==
  CASE edge.kind = "LineEdge" -> 2
    [] edge.kind = "ArcEdge" -> 29
    [] OTHER -> 0

\* no handled edge comes before edge k of the path: first_set is still false
IsFirstEdge(path, k) == \A m \in 1..(k - 1) : ~Handled(path[m])

\* the discretization of arc edge k of the path
ArcOf(path, k) ==
  DiscretizarArco(path[k].center[1], path[k].center[2], path[k].radius,
                  Degrees(path[k].start_angle), Degrees(path[k].end_angle),
                  ~path[k].ccw, 28)

\* the number of points edge k adds: all of its points when it is first,
\* all but the first otherwise
AddedCount(path, k) ==
  IF ~Handled(path[k]) THEN 0
  ELSE IF IsFirstEdge(path, k) THEN FullCount(path[k]) ELSE FullCount(path[k]) - 1

RECURSIVE PointsBefore(_, _)
\* the number of points in the loop when edge k is reached
PointsBefore(path, k) ==
  IF k = 1 THEN 0 ELSE PointsBefore(path, k - 1) + AddedCount(path, k - 1)

\* the points edge k of the path added to the loop
AddedBy(loop, path, k) ==
  SubSeq(loop, PointsBefore(path, k) + 1, PointsBefore(path, k) + AddedCount(path, k))

\* C26 as claimed: an arc edge that is not the first edge of its loop adds
\* all 29 points of its discretization, an arc edge that is the first edge
\* adds only its first discretized point, and both endpoints of a line edge
\* are in the loop, one after the other.
C26_ArcEdgeAsClaimed ==
  \A i \in HatchPrims :
    LET src == LoopSources(SourceOf(i).paths)
    IN \A j \in 1..Len(src) : \A k \in 1..Len(src[j]) :
         LET loop == prims[i].data.loops[j]
             before == PointsBefore(src[j], k)
             after == IF k = Len(src[j]) THEN Len(PathPoints(src[j]))
                      ELSE PointsBefore(src[j], k + 1)
         IN /\ (src[j][k].kind = "ArcEdge" /\ ~IsFirstEdge(src[j], k))
                 => SubSeq(loop, before + 1, after) = ArcOf(src[j], k)
            /\ (src[j][k].kind = "ArcEdge" /\ IsFirstEdge(src[j], k))
                 => SubSeq(loop, before + 1, after) = <<ArcOf(src[j], k)[1]>>
            /\ src[j][k].kind = "LineEdge"
                 => \E t \in 1..(Len(loop) - 1) :
                      loop[t] = src[j][k].start /\ loop[t + 1] = src[j][k].end

\* C26, amended: an arc edge that is the first edge of its loop adds all 29
\* points of its 28-segment discretization and an arc edge that is not the
\* first adds the 28 points after the first one; a line edge adds both of
\* its endpoints when it is the first edge and only its end point otherwise.
C26_ArcEdgePoints ==
  \A i \in HatchPrims :
    LET src == LoopSources(SourceOf(i).paths)
    IN \A j \in 1..Len(src) :
         LET loop == prims[i].data.loops[j]
             path == src[j]
             total == PointsBefore(path, Len(path)) + AddedCount(path, Len(path))
         IN /\ Len(loop) \in {total, total + 1}
            /\ \A k \in 1..Len(path) :
                 LET added == AddedBy(loop, path, k)
                     first == IsFirstEdge(path, k)
                 IN /\ (path[k].kind = "ArcEdge" /\ first)
                         => (Len(added) = 29 /\ added = ArcOf(path, k))
                    /\ (path[k].kind = "ArcEdge" /\ ~first)
                         => (Len(added) = 28 /\ added = Tail(ArcOf(path, k)))
                    /\ (path[k].kind = "LineEdge" /\ first)
                         => added = <<path[k].start, path[k].end>>
                    /\ (path[k].kind = "LineEdge" /\ ~first) => added = <<path[k].end>>

\* a loop of a line, a quarter arc and a line: 2 + 28 + 1 points, closed
\* already
C26_Witness ==
  \E i \in HatchPrims :
    \E j \in 1..Len(prims[i].data.loops) :
      LET path == LoopSources(SourceOf(i).paths)[j]
      IN /\ Len(path) = 3
         /\ path[2].kind = "ArcEdge"
         /\ Len(prims[i].data.loops[j]) = 31

(***************************************************************************)
(* discretizar_arco on its own                                             *)
(***************************************************************************)
\* nothing is being traversed or painted
Idle ==
  /\ doc = DocEmpty
  /\ opts = UiOptions
  /\ prims = <<>>
  /\ hist = <<>>
  /\ cuenta = 0
  /\ block_repeats = [n \in BlockNames |-> 0]
  /\ expanded = [n \in BlockNames |-> 0]
  /\ stack = <<>>
  /\ mspIdx = 1
  /\ pc = "done"
  /\ cap_skips = 0
  /\ simplify_render = TRUE
  /\ drawn = None

traversalVars ==
  <<doc, opts, prims, hist, cuenta, block_repeats, expanded, stack, mspIdx, pc,
    cap_skips, simplify_render, drawn>>

InitArc ==
  /\ Idle
  /\ arc_call \in {ArcCall(a) : a \in ArcInputs}
  /\ win = None
  /\ load = None

\* the call runs to its return
Discretize ==
  /\ arc_call.pts = None
  /\ arc_call' =
       [arc_call EXCEPT
          !.pts = Some(DiscretizarArco(0, 0, RadiusChoice, arc_call.args.start_deg,
                                       arc_call.args.end_deg, arc_call.args.ccw,
                                       arc_call.args.seg)),
          !.angs = ArcAngles(arc_call.args.start_deg, arc_call.args.end_deg,
                             arc_call.args.ccw, arc_call.args.seg),
          !.steps = StepsOf(arc_call.args.seg)]
  /\ UNCHANGED <<traversalVars, win, load>>

NextArc == Discretize

SpecArc == InitArc /\ [][NextArc]_vars

\* C27: discretizar_arco returns exactly segments + 1 points for the
\* requested segment count, the first at the start angle and the last at the
\* end angle; the span is strictly positive in the chosen direction and at
\* most 360 degrees, a full turn when start equals end; the sample angles
\* are strictly monotone and equally spaced; start = 0, end = 90, ccw,
\* segments = 4 gives 5 points over a quarter turn with increasing angle.
C27_ArcSamples ==
  (arc_call # None /\ arc_call.pts # None) =>
    LET a == arc_call.args
        pts == arc_call.pts[1]
        angs == arc_call.angs
        unit == arc_call.steps
        n == Len(angs)
        span == IF a.ccw THEN angs[n] - angs[1] ELSE angs[1] - angs[n]
    IN /\ Len(pts) = a.seg + 1
       /\ n = Len(pts)
       /\ (angs[1] - a.start_deg * unit) % (360 * unit) = 0
       /\ (angs[n] - a.end_deg * unit) % (360 * unit) = 0
       /\ span > 0
       /\ span <= 360 * unit
       /\ a.start_deg = a.end_deg => span = 360 * unit
       /\ \A k \in 1..(n - 1) :
            /\ a.ccw => angs[k + 1] > angs[k]
            /\ ~a.ccw => angs[k + 1] < angs[k]
            /\ angs[k + 1] - angs[k] = angs[2] - angs[1]
       /\ (a.start_deg = 0 /\ a.end_deg = 90 /\ a.ccw /\ a.seg = 4)
            => /\ Len(pts) = 5
               /\ angs = <<0, 90, 180, 270, 360>>
               /\ pts[1] = <<RadiusChoice, 0>> /\ pts[5] = <<0, RadiusChoice>>

\* C27 (amended): discretizar_arco returns exactly max(4, segments) + 1
\* points, the first at the start angle and the last at the end angle; the
\* span is strictly positive in the chosen direction, a full turn when
\* start equals end, and at most 360 degrees whenever the end angle given
\* lies no more than a full turn beyond the start in that direction; the
\* sample angles are strictly monotone and equally spaced; start = 0,
\* end = 90, ccw, segments = 4 gives 5 points over a quarter turn with
\* increasing angle.
C27_ArcSamplesFloor ==
  (arc_call # None /\ arc_call.pts # None) =>
    LET a == arc_call.args
        pts == arc_call.pts[1]
        angs == arc_call.angs
        unit == arc_call.steps
        n == Len(angs)
        span == IF a.ccw THEN angs[n] - angs[1] ELSE angs[1] - angs[n]
        apart == IF a.ccw THEN a.end_deg - a.start_deg ELSE a.start_deg - a.end_deg
    IN /\ Len(pts) = (IF a.seg >= 4 THEN a.seg ELSE 4) + 1
       /\ n = Len(pts)
       /\ (angs[1] - a.start_deg * unit) % (360 * unit) = 0
       /\ (angs[n] - a.end_deg * unit) % (360 * unit) = 0
       /\ span > 0
       /\ apart <= 360 => span <= 360 * unit
       /\ a.start_deg = a.end_deg => span = 360 * unit
       /\ \A k \in 1..(n - 1) :
            /\ a.ccw => angs[k + 1] > angs[k]
            /\ ~a.ccw => angs[k + 1] < angs[k]
            /\ angs[k + 1] - angs[k] = angs[2] - angs[1]
       /\ (a.start_deg = 0 /\ a.end_deg = 90 /\ a.ccw /\ a.seg = 4)
            => /\ Len(pts) = 5
               /\ angs = <<0, 90, 180, 270, 360>>
               /\ pts[1] = <<RadiusChoice, 0>> /\ pts[5] = <<0, RadiusChoice>>

\* a call asking for 3 segments between equal angles has returned 5 points
\* over a full turn
C27_Witness ==
  /\ arc_call # None
  /\ arc_call.pts # None
  /\ arc_call.args.seg = 3
  /\ arc_call.args.start_deg = arc_call.args.end_deg
  /\ Len(arc_call.pts[1]) = 5
  /\ arc_call.angs[5] - arc_call.angs[1] = 360 * arc_call.steps

(***************************************************************************)
(* Loading a file: cargar_archivo                                          *)
(*                                                                         *)
(* A text that the code searches (a file extension, str(e) of an           *)
(* exception) is a sequence of words; lower() works word by word and "in"  *)
(* looks for a run of consecutive words.                                   *)
(***************************************************************************)
SUPPORTED_EXTENSIONS == {".dwg", ".dxf", ".pdf"}

Lower(w) ==
  CASE w = ".DWG" -> ".dwg"
    [] w = ".Dxf" -> ".dxf"
    [] w = ".PDF" -> ".pdf"
    [] w = "Not" -> "not"
    [] w = "Invalid" -> "invalid"
    [] w = "DXF" -> "dxf"
    [] w = "File" -> "file"
    [] w = "Missing" -> "missing"
    [] w = "SECTION" -> "section"
    [] w = "Permission" -> "permission"
    [] OTHER -> w

LowerAll(text) == [i \in 1..Len(text) |-> Lower(text[i])]

\* sub in text
Contains(text, sub) ==
  \E i \in 0..(Len(text) - Len(sub)) : SubSeq(text, i + 1, i + Len(sub)) = sub

\* an exception in flight: its class and str(e)
Exc(class, text) == [class |-> class, text |-> text]

\* what ezdxf.readfile does with a file: None when it returns a document
ReadChoices ==
  {None,
   Some(Exc("DXFStructureError", <<"File", "is", "not", "a", "DXF", "file">>)),
   Some(Exc("DXFStructureError", <<"Invalid", "DXF", "version">>)),
   Some(Exc("DXFStructureError", <<"Missing", "required", "SECTION">>)),
   Some(Exc("OSError", <<"Permission", "denied">>))}

\* the ODA converter on this machine: whether _find_oda_converter finds
\* the executable, what creating the temporary directories and copying the
\* source into them raises (None: nothing), and the first of the four
\* versions whose run leaves a DXF (0: none of them)
Converter(found, temp, version) == [found |-> found, temp |-> temp, version |-> version]

ConverterChoices ==
  {Converter(FALSE, None, 0), Converter(TRUE, None, 0), Converter(TRUE, None, 1),
   Converter(TRUE, None, 3),
   Converter(TRUE, Some(Exc("OSError", <<"No", "space", "left", "on", "device">>)), 1)}

\* the PDF libraries and what they do with the file
Pdf(fitz, pages, pypdf2) == [fitz |-> fitz, pages |-> pages, pypdf2 |-> pypdf2]

PdfChoices ==
  {Pdf(f, n, p) : f \in {"absent", "reads", "raises"}, n \in {0, 1},
                  p \in {"absent", "reads", "raises"}}

\* primitives as the window sees them: a type and a layer
Prim(tipo, layer) == [tipo |-> tipo, layer |-> layer]

\* what extraer_primitivas_basicas does with the drawing: a list of
\* primitives, or None when it raises
DrawingChoices ==
  {None, Some(<<>>),
   Some(<<Prim("LINE", "0"), Prim("CIRCLE", "L1"), Prim("LINE", "0")>>),
   Some(<<Prim("TEXT", "L1"), Prim("LINE", "L2")>>)}

\* a path picked in the dialog with everything the load will find there
File(stem, ext) ==
  [stem |-> stem, ext |-> ext, isfile |-> TRUE, ezdxf |-> TRUE, read |-> None,
   converter |-> Converter(TRUE, None, 1), read_converted |-> None,
   extents |-> Some(<<0, 0, 10, 5>>),
   drawing |-> Some(<<Prim("LINE", "0"), Prim("CIRCLE", "L1"), Prim("LINE", "0")>>),
   pdf |-> Pdf("reads", 1, "absent")]

DxfFiles ==
  {[File("plano", ".dxf") EXCEPT !.drawing = d] : d \in DrawingChoices}
  \cup {[File("vacio", ".dxf") EXCEPT !.drawing = d, !.extents = None] :
          d \in {None, Some(<<>>)}}
  \cup {[File("roto", ".Dxf") EXCEPT !.read = r] : r \in ReadChoices \ {None}}
  \cup {[File("perdido", ".dxf") EXCEPT !.isfile = FALSE],
        [File("plano", ".dxf") EXCEPT !.ezdxf = FALSE]}

\* the second parse is reached only with a converted file
DwgFiles ==
  {[File("planta", ".dwg") EXCEPT !.drawing = d] :
       d \in {Some(<<>>), Some(<<Prim("TEXT", "L1"), Prim("LINE", "L2")>>)}}
  \cup {[File("antiguo", ".dwg") EXCEPT !.read = r] : r \in ReadChoices \ {None}}
  \cup {[File("antiguo", ".DWG") EXCEPT
           !.read = Some(Exc("DXFStructureError", <<"Invalid", "DXF", "version">>)),
           !.converter = c] : c \in ConverterChoices}
  \cup {[File("antiguo", ".dwg") EXCEPT
           !.read = Some(Exc("DXFStructureError", <<"File", "is", "not", "a", "DXF", "file">>)),
           !.converter = Converter(TRUE, None, v),
           !.read_converted =
              Some(Exc("DXFStructureError", <<"Missing", "required", "SECTION">>))] :
          v \in {1, 3}}
  \cup {[File("perdido", ".dwg") EXCEPT !.isfile = FALSE],
        [File("planta", ".dwg") EXCEPT !.ezdxf = FALSE]}

PdfFiles ==
  {[File("hoja", ".pdf") EXCEPT !.pdf = p] :
       p \in {q \in PdfChoices : q.fitz = "reads" => q.pypdf2 = "absent"}}
  \cup {[File("perdido", ".PDF") EXCEPT !.isfile = FALSE]}

OtherFiles == {File("notas", ".txt"), File("plano", "")}

Files == DxfFiles \cup DwgFiles \cup PdfFiles \cup OtherFiles

PathOf(f) == <<f.stem, f.ext>>

LoadError(message, detail) == [message |-> message, detail |-> detail]

DwgInfo(path, f, converted) ==
  [path |-> path, original_path |-> PathOf(f), extents |-> f.extents,
   source_was_converted |-> converted,
   converted_temp_path |-> IF converted THEN Some(path) ELSE None]

PdfPreview(f, pixmap, library) ==
  [path |-> PathOf(f), page_count |-> f.pdf.pages, first_page_pixmap |-> pixmap,
   library |-> library]

\* what a function hands back: a value or an exception leaving it, and the
\* calls it made, in order
Returns(value, calls) == [raised |-> None, value |-> Some(value), calls |-> calls]

Raises(e, calls) == [raised |-> Some(e), value |-> None, calls |-> calls]

\* the path of the DXF the converter leaves in its output directory
ConvertedPath(f) == <<"comcad_dwg2dxf_", f.stem, ".dxf">>

\* _convert_dwg_to_dxf: the pair (conv, err), after one run of the
\* executable per version tried
ConvertDwgToDxf(f) ==
  IF ~f.converter.found
  THEN Returns(<<None, Some(<<"Instala", "ODA", "File", "Converter", "o", "define",
                              "ODA_CONVERTER.">>)>>, <<>>)
  ELSE IF ~f.isfile
  THEN Returns(<<None, Some(<<"Archivo", "origen", "no", "encontrado.">>)>>, <<>>)
  ELSE IF f.converter.temp # None
  THEN Raises(f.converter.temp[1], <<>>)
  ELSE IF f.converter.version \in 1..4
  THEN Returns(<<Some(ConvertedPath(f)), None>>,
               [i \in 1..f.converter.version |-> "run"])
  ELSE Returns(<<None, Some(<<"Fallo", "conversión", "ODA:", "No", "se", "halló", "DXF",
                              "tras", "conversión.">>)>>,
               [i \in 1..4 |-> "run"])

\* _parse_dxf of the file itself
ParseDxf(f) ==
  IF f.read = None
  THEN Returns(DwgInfo(PathOf(f), f, FALSE), <<"parse">>)
  ELSE Raises(f.read[1], <<"parse">>)

\* _parse_dxf of the converted file
ParseConverted(f) ==
  IF f.read_converted = None
  THEN Returns(DwgInfo(ConvertedPath(f), f, TRUE), <<"parse_converted">>)
  ELSE Raises(f.read_converted[1], <<"parse_converted">>)

\* the test of line 196 on str(e).lower()
IsFormatMessage(text) ==
  \/ Contains(LowerAll(text), <<"not", "a", "dxf">>)
  \/ Contains(LowerAll(text), <<"invalid", "dxf">>)

NoEzdxf ==
  LoadError(<<"La", "librería", "ezdxf", "no", "está", "instalada.">>,
            Some(<<"pip", "install", "ezdxf">>))

CargarDxf(f) ==
  IF ~f.ezdxf THEN Returns(NoEzdxf, <<>>)
  ELSE IF ~f.isfile THEN Returns(LoadError(<<"Archivo", "no", "encontrado">>, None), <<>>)
  ELSE LET direct == ParseDxf(f)
       IN IF direct.raised = None THEN direct
          ELSE IF direct.raised[1].class = "DXFStructureError"
          THEN Returns(LoadError(<<"DXF", "corrupto", "o", "incompatible">>,
                                 Some(direct.raised[1].text)), direct.calls)
          ELSE Returns(LoadError(<<"Error", "al", "cargar", "DXF">>,
                                 Some(direct.raised[1].text)), direct.calls)

\* the handler of DXFStructureError in _cargar_dwg, lines 196-206; what it
\* raises leaves _cargar_dwg
AfterStructureError(f, e, calls) ==
  IF IsFormatMessage(e.text)
  THEN LET conv == ConvertDwgToDxf(f)
           made == calls \o <<"convert">> \o conv.calls
       IN IF conv.raised # None THEN Raises(conv.raised[1], made)
          ELSE IF conv.value[1][1] = None
          THEN Returns(LoadError(<<"No", "se", "pudo", "convertir", "DWG",
                                   "automáticamente">>, conv.value[1][2]), made)
          ELSE LET again == ParseConverted(f)
               IN IF again.raised = None
                  THEN Returns(again.value[1], made \o again.calls)
                  ELSE Returns(LoadError(<<"Error", "tras", "conversión", "DWG→DXF">>,
                                         Some(again.raised[1].text)),
                               made \o again.calls)
  ELSE Returns(LoadError(<<"Error", "al", "cargar", "DWG">>, Some(e.text)), calls)

CargarDwg(f) ==
  IF ~f.ezdxf THEN Returns(NoEzdxf, <<>>)
  ELSE IF ~f.isfile THEN Returns(LoadError(<<"Archivo", "no", "encontrado">>, None), <<>>)
  ELSE LET direct == ParseDxf(f)
       IN IF direct.raised = None THEN direct
          ELSE IF direct.raised[1].class = "DXFStructureError"
          THEN AfterStructureError(f, direct.raised[1], direct.calls)
          ELSE Returns(LoadError(<<"Error", "al", "cargar", "DWG">>,
                                 Some(direct.raised[1].text)), direct.calls)

\* the second library, tried when the first is absent or has raised
CargarPdfPyPDF2(f) ==
  IF f.pdf.pypdf2 = "reads" THEN Returns(PdfPreview(f, None, "PyPDF2"), <<>>)
  ELSE IF f.pdf.pypdf2 = "raises"
  THEN Returns(LoadError(<<"Error", "PyPDF2">>, Some(<<"EOF", "marker", "not", "found">>)),
               <<>>)
  ELSE Returns(LoadError(<<"No", "hay", "librerías", "PDF", "disponibles">>, None), <<>>)

CargarPdf(f) ==
  IF ~f.isfile THEN Returns(LoadError(<<"Archivo", "no", "encontrado">>, None), <<>>)
  ELSE IF f.pdf.fitz = "reads"
  THEN Returns(PdfPreview(f, IF f.pdf.pages > 0 THEN Some("pixmap") ELSE None, "PyMuPDF"),
               <<>>)
  ELSE IF f.pdf.fitz = "raises" /\ f.pdf.pypdf2 = "absent"
  THEN Returns(LoadError(<<"Error", "PyMuPDF">>, Some(<<"cannot", "open", "file">>)), <<>>)
  ELSE CargarPdfPyPDF2(f)

IsLoadError(info) == "message" \in DOMAIN info

LoadResult(f, type, dwg, pdf, error) ==
  [path |-> PathOf(f), type |-> type, dwg |-> dwg, pdf |-> pdf, error |-> error]

\* the tail of each branch of cargar_archivo: the loader's value wrapped
\* in a LoadResult, its exception passed on
Wrap(f, type, got) ==
  IF got.raised # None THEN got
  ELSE IF IsLoadError(got.value[1])
  THEN Returns(LoadResult(f, type, None, None, got.value), got.calls)
  ELSE IF type = "pdf"
  THEN Returns(LoadResult(f, type, None, got.value, None), got.calls)
  ELSE Returns(LoadResult(f, type, got.value, None, None), got.calls)

CargarArchivo(f) ==
  LET ext == Lower(f.ext)
  IN IF ext \notin SUPPORTED_EXTENSIONS
     THEN Returns(LoadResult(f, "unknown", None, None,
                             Some(LoadError(<<"Extensión", "no", "soportada:", ext>>, None))),
                  <<>>)
     ELSE IF ext = ".dxf" THEN Wrap(f, "dxf", CargarDxf(f))
     ELSE IF ext = ".dwg" THEN Wrap(f, "dwg", CargarDwg(f))
     ELSE Wrap(f, "pdf", CargarPdf(f))

OkMutAlways(result) == TRUE

\* LoadResult.ok
Ok(result) == result.error = None

EsDwg(result) == result.type \in {"dwg", "dxf"} /\ result.dwg # None /\ Ok(result)

EsPdf(result) == result.type = "pdf" /\ result.pdf # None /\ Ok(result)

(***************************************************************************)
(* The main window: New, Open, the layer check boxes, Insert and Draw      *)
(*                                                                         *)
(* Every graphics item carries the number of the document it was made for  *)
(* (gen); win.loads counts the documents made current so far and           *)
(* win.discarded the items _clear_loaded_items has taken out of the scene. *)
(* Both are history: the code keeps neither.                               *)
(***************************************************************************)
MaxLoads == 2

MaxItemsCount == 4

Item(gen, kind, layer) == [gen |-> gen, kind |-> kind, layer |-> layer]

EmptyMap == [l \in {} |-> TRUE]

Range(seq) == {seq[i] : i \in 1..Len(seq)}

\* VentanaPrincipal.__init__, lines 587-597; the scene holds the items
\* added for documents, each with its visibility
NewWindow ==
  [has_document |-> FALSE, current_file |-> None, items_count |-> 0,
   current_mode |-> "Selección", loaded_items |-> <<>>, layer_items |-> EmptyMap,
   layer_visible |-> EmptyMap, last_primitives |-> <<>>, scene |-> EmptyMap,
   loads |-> 0, discarded |-> 0]

\* the scene without the items given
WithoutItems(scene, items) == [it \in (DOMAIN scene) \ items |-> scene[it]]

ClearLoadedItemsMutKeepScene(w) ==
  [w EXCEPT !.loaded_items = <<>>, !.layer_items = EmptyMap, !.layer_visible = EmptyMap,
            !.last_primitives = <<>>, !.items_count = 0]

ClearLoadedItems(w) ==
  [w EXCEPT !.scene = WithoutItems(@, Range(w.loaded_items)),
            !.discarded = @ + Cardinality(Range(w.loaded_items) \cap DOMAIN w.scene),
            !.loaded_items = <<>>, !.layer_items = EmptyMap, !.layer_visible = EmptyMap,
            !.last_primitives = <<>>, !.items_count = 0]

\* scene.addItem(item); self._loaded_items.append(item)
AddLoadedItem(w, item) ==
  [w EXCEPT !.scene = (item :> TRUE) @@ @, !.loaded_items = Append(@, item)]

\* the keys of layer_map, in the order the dict received them
LayerOrder(ps) ==
  LET firsts == SelectSeq([i \in 1..Len(ps) |-> i],
                          LAMBDA i : \A j \in 1..(i - 1) : ps[j].layer # ps[i].layer)
  IN [k \in 1..Len(firsts) |-> ps[firsts[k]].layer]

\* one round of the loop of lines 1057-1066
AddLayerItem(w, layer) ==
  LET item == Item(w.loads, "layer", layer)
      added == AddLoadedItem(w, item)
  IN [added EXCEPT !.layer_items = (layer :> item) @@ @,
                   !.layer_visible = (layer :> TRUE) @@ @]

RECURSIVE AddLayerItems(_, _)
AddLayerItems(w, layers) ==
  IF layers = <<>> THEN w
  ELSE AddLayerItems(AddLayerItem(w, Head(layers)), Tail(layers))

BuildLayerItems(w, ps) ==
  [AddLayerItems([w EXCEPT !.last_primitives = ps], LayerOrder(ps))
     EXCEPT !.items_count = Len(ps)]

\* _on_open from line 1008 on, for a result that is ok
ShowResult(w, f, result) ==
  LET cleared == [ClearLoadedItems(w) EXCEPT !.has_document = TRUE,
                                             !.current_file = Some(result.path),
                                             !.loads = @ + 1]
      ps == IF f.drawing = None THEN <<>> ELSE f.drawing[1]
  IN IF EsPdf(result)
     THEN IF result.pdf[1].first_page_pixmap # None
          THEN AddLoadedItem(cleared, Item(cleared.loads, "pixmap", ""))
          ELSE cleared
     ELSE IF EsDwg(result)
     THEN IF ps = <<>>
          THEN IF result.dwg[1].extents # None
               THEN [AddLoadedItem(cleared, Item(cleared.loads, "rect", ""))
                       EXCEPT !.items_count = 1]
               ELSE cleared
          ELSE BuildLayerItems(cleared, ps)
     ELSE cleared

\* what a handler leaves in load
Opening(file, outcome) == [file |-> file, outcome |-> outcome]

\* _on_open with the dialog cancelled (choice = None) or a file picked
OnOpen ==
  \E choice \in {None} \cup {Some(f) : f \in Files} :
    /\ UNCHANGED <<traversalVars, arc_call>>
    /\ IF choice = None
       THEN /\ load' = Some(Opening(None, None))
            /\ win' = win
       ELSE LET f == choice[1]
                got == CargarArchivo(f)
            IN /\ load' = Some(Opening(choice, Some(got)))
               /\ IF got.raised # None THEN win' = win
                  ELSE IF ~Ok(got.value[1]) THEN win' = win
                  ELSE /\ win.loads < MaxLoads
                       /\ win' = ShowResult(win, f, got.value[1])

OnNew ==
  /\ win.loads < MaxLoads
  /\ win' = [ClearLoadedItems(win) EXCEPT !.has_document = TRUE,
                                          !.current_file = Some(<<"nuevo_plano", ".dxf">>),
                                          !.loads = @ + 1]
  /\ load' = None
  /\ UNCHANGED <<traversalVars, arc_call>>

\* a check box of the layer panel changes state
OnLayerToggle ==
  \E layer \in DOMAIN win.layer_items, visible \in BOOLEAN :
    /\ win' = [win EXCEPT
                 !.layer_visible = (layer :> visible) @@ @,
                 !.scene = IF layer \in DOMAIN win.layer_items
                           THEN (win.layer_items[layer] :> visible) @@ @
                           ELSE @]
    /\ load' = None
    /\ UNCHANGED <<traversalVars, arc_call>>

OnInsert ==
  /\ win.items_count < MaxItemsCount
  /\ win' = [win EXCEPT !.current_mode = "Inserción", !.items_count = @ + 1]
  /\ load' = None
  /\ UNCHANGED <<traversalVars, arc_call>>

OnDraw ==
  /\ win.items_count < MaxItemsCount
  /\ win' = [win EXCEPT !.current_mode = "Dibujo", !.items_count = @ + 1]
  /\ load' = None
  /\ UNCHANGED <<traversalVars, arc_call>>

InitWindow ==
  /\ Idle
  /\ arc_call = None
  /\ win = NewWindow
  /\ load = None

NextWindow == OnNew \/ OnOpen \/ OnLayerToggle \/ OnInsert \/ OnDraw

SpecWindow == InitWindow /\ [][NextWindow]_vars

\* C23: after any sequence of New and Open actions the layer items, the
\* layer-visibility map and the loaded scene items belong only to the most
\* recently loaded document: nothing made for an earlier document is left
\* in the scene, in the list of loaded items or in the two layer maps, the
\* layers of the maps are those of the document's primitives, and the two
\* maps have the same keys.
C23_OnlyLatestDocument ==
  win # None =>
    /\ \A it \in Range(win.loaded_items) : it.gen = win.loads /\ it \in DOMAIN win.scene
    /\ \A it \in DOMAIN win.scene : it.gen = win.loads /\ it \in Range(win.loaded_items)
    /\ \A l \in DOMAIN win.layer_items :
         /\ win.layer_items[l].gen = win.loads
         /\ win.layer_items[l].layer = l
         /\ win.layer_items[l] \in Range(win.loaded_items)
    /\ DOMAIN win.layer_items = DOMAIN win.layer_visible
    /\ DOMAIN win.layer_visible = {win.last_primitives[i].layer :
                                     i \in 1..Len(win.last_primitives)}

\* a document with two layers, one of them switched off, has replaced
\* another one whose layer items were discarded
C23_Witness ==
  /\ win # None
  /\ win.loads >= 2
  /\ win.discarded >= 2
  /\ Cardinality(DOMAIN win.layer_items) = 2
  /\ \E l \in DOMAIN win.layer_visible : ~win.layer_visible[l]

\* the document state C29 lists
DocumentState(w) ==
  <<w.loaded_items, w.layer_items, w.layer_visible, w.last_primitives, w.items_count,
    w.current_file, w.has_document>>

\* the last handler was Open and it was cancelled or its load returned an
\* error
OpenFailed ==
  /\ load # None
  /\ \/ load[1].file = None
     \/ /\ load[1].outcome[1].raised = None
        /\ load[1].outcome[1].value[1].error # None

\* C29: an Open action that is cancelled in the file dialog or whose load
\* returns an error leaves the loaded scene items, the layer-item and
\* layer-visibility maps, the last primitive list, the item count, the
\* current file and the has-document flag as they were before the action.
C29_FailedOpenKeepsDocument ==
  [][OpenFailed' => DocumentState(win') = DocumentState(win)]_vars

\* a load has returned an error while a document with a hidden layer and
\* an inserted symbol was open
C29_Witness ==
  /\ OpenFailed
  /\ load[1].file # None
  /\ win.has_document
  /\ Len(win.loaded_items) = 2
  /\ win.items_count = Len(win.last_primitives) + 1
  /\ \E l \in DOMAIN win.layer_visible : ~win.layer_visible[l]

\* the calls of a load, in order
CallsOf(l) == l[1].outcome[1].calls

Count(calls, name) == Cardinality({i \in 1..Len(calls) : calls[i] = name})

\* the converter returned no path (it failed or is not installed) or
\* raised
ConverterFailed(f) ==
  \/ ~f.converter.found
  \/ f.converter.temp # None
  \/ f.converter.version = 0

\* C24: during a load the converter is invoked only after direct parsing
\* of the file has failed with a format error, never when direct parsing
\* succeeds, never for another kind of failure, never for a .dxf or .pdf
\* path, and at most once; when it fails or is unavailable the load result
\* carries an error with a diagnostic detail and no document info.
C24_ConverterOnlyAfterFormatError ==
  (load # None /\ load[1].file # None) =>
    LET f == load[1].file[1]
        got == load[1].outcome[1]
        calls == got.calls
    IN /\ Count(calls, "convert") <= 1
       /\ Count(calls, "convert") = 1 =>
            /\ Lower(f.ext) = ".dwg"
            /\ Len(calls) >= 2 /\ calls[1] = "parse" /\ calls[2] = "convert"
            /\ f.read # None
            /\ f.read[1].class = "DXFStructureError"
            /\ ConverterFailed(f) =>
                 /\ got.raised = None
                 /\ got.value[1].error # None
                 /\ got.value[1].error[1].detail # None
                 /\ got.value[1].error[1].detail[1] # <<>>
                 /\ got.value[1].dwg = None
====
